---- MODULE Spec2Model ----
(***************************************************************************)
(* Model of the validation + template engine of pdf-mapper-demo           *)
(* (src/complete_demo.py, class ProfessionalPDFMapper).                    *)
(*                                                                         *)
(* Python values are modelled as records tagged with their type; Python    *)
(* strings are sequences of one-character strings, so that str(), strip(), *)
(* len(), float() and re.match() are computed character by character.      *)
(* Chinese display texts of the source are written as ASCII glosses.       *)
(***************************************************************************)
EXTENDS Integers, Sequences, FiniteSets, TLC

VARIABLES mapping_rules, validation_errors, data, data_list, call, ret, repeated,
          all_results, ctor, config_path, config_dir, config_file, output_file,
          threads

vars == <<mapping_rules, validation_errors, data, data_list, call, ret, repeated,
          all_results, ctor, config_path, config_dir, config_file, output_file,
          threads>>

\* the files and directories the mapper reads and writes
disk == <<config_path, config_dir, config_file, output_file>>

(***************************************************************************)
(* Bounds of the model.                                                    *)
(***************************************************************************)
\* largest number of keys the caller puts into one record
MaxRecordLen == 2
\* largest number of records the caller puts into one batch
MaxBatch == 2
\* largest number of failed validations whose result the caller keeps
MaxResults == 1

(***************************************************************************)
(* Python scalars: str, int, bool.  Num(n) is an int that a float can      *)
(* hold; BigInt is the int 10**400, which is beyond the range of a float.  *)
(***************************************************************************)
Str(s) == [k |-> "str", s |-> s]
Num(n) == [k |-> "num", n |-> n]
Bool(b) == [k |-> "bool", b |-> b]
BigInt == [k |-> "bigint"]

Digit == {"0", "1", "2", "3", "4", "5", "6", "7", "8", "9"}
Upper == {"A", "B", "C", "D", "E", "F", "G", "H", "I", "J", "K", "L", "M",
          "N", "O", "P", "Q", "R", "S", "T", "U", "V", "W", "X", "Y", "Z"}
Lower == {"a", "b", "c", "d", "e", "f", "g", "h", "i", "j", "k", "l", "m",
          "n", "o", "p", "q", "r", "s", "t", "u", "v", "w", "x", "y", "z"}
\* the characters Python's str.strip() and the regex class \s treat as blank
Whitespace == {" ", "\t", "\n", "\r", "\f"}
\* stand-in for the ideographs of the range u4e00-u9fff
Cjk == {"U+5F35", "U+9673", "U+5927", "U+660E", "U+738B", "U+5C0F", "U+83EF"}

DigitChar == <<"0", "1", "2", "3", "4", "5", "6", "7", "8", "9">>
DigitVal == [c \in Digit |-> CHOOSE d \in 0..9 : DigitChar[d + 1] = c]

RECURSIVE NatToStr(_)
NatToStr(n) == IF n < 10 THEN <<DigitChar[n + 1]>>
               ELSE NatToStr(n \div 10) \o <<DigitChar[(n % 10) + 1]>>

\* str(value)
PyStr(v) == CASE v.k = "str" -> v.s
              [] v.k = "num" -> IF v.n < 0 THEN <<"-">> \o NatToStr(0 - v.n)
                                ELSE NatToStr(v.n)
              [] v.k = "bool" -> IF v.b THEN <<"T", "r", "u", "e">>
                                 ELSE <<"F", "a", "l", "s", "e">>
              [] v.k = "bigint" -> [i \in 1..401 |-> IF i = 1 THEN "1" ELSE "0"]

RECURSIVE LStrip(_)
LStrip(s) == IF s # << >> /\ Head(s) \in Whitespace THEN LStrip(Tail(s)) ELSE s

RECURSIVE RStrip(_)
RStrip(s) == IF s # << >> /\ s[Len(s)] \in Whitespace
             THEN RStrip(SubSeq(s, 1, Len(s) - 1)) ELSE s

\* str.strip()
Strip(s) == RStrip(LStrip(s))

\* bool(value), the truth test of `if data[field_name]`
Truthy(v) == CASE v.k = "str" -> v.s # << >>
               [] v.k = "num" -> v.n # 0
               [] v.k = "bool" -> v.b
               [] v.k = "bigint" -> TRUE

\* the numeric value of an int or a bool (True == 1, False == 0)
NumberOf(v) == IF v.k = "bool" THEN (IF v.b THEN 1 ELSE 0) ELSE v.n

\* a == b of two scalars
PyEq(a, b) == IF a.k \in {"str", "bigint"} \/ b.k \in {"str", "bigint"} THEN a = b
              ELSE NumberOf(a) = NumberOf(b)

RECURSIVE DigitsToNat(_)
DigitsToNat(s) == IF s = << >> THEN 0
                  ELSE DigitsToNat(SubSeq(s, 1, Len(s) - 1)) * 10 + DigitVal[s[Len(s)]]

AllIn(s, chars) == \A i \in 1..Len(s) : s[i] \in chars

\* float(value): exc names the exception it raises ("none": it returns n) and
\* ok says that it returned.  Strings are parsed as blank-trimmed, optionally
\* signed decimal integer literals; the model's inputs hold no fraction,
\* exponent, underscore, inf or nan literal.  An int beyond the range of a
\* float raises OverflowError.
PyFloat(v) ==
    IF v.k = "bigint" THEN [ok |-> FALSE, n |-> 0, exc |-> "OverflowError"]
    ELSE IF v.k # "str" THEN [ok |-> TRUE, n |-> NumberOf(v), exc |-> "none"]
    ELSE LET t == Strip(v.s)
             signed == t # << >> /\ Head(t) \in {"+", "-"}
             body == IF signed THEN Tail(t) ELSE t
         IN IF body # << >> /\ AllIn(body, Digit)
            THEN [ok |-> TRUE,
                  n |-> IF signed /\ Head(t) = "-" THEN 0 - DigitsToNat(body)
                        ELSE DigitsToNat(body),
                  exc |-> "none"]
            ELSE [ok |-> FALSE, n |-> 0, exc |-> "ValueError"]

(***************************************************************************)
(* Regular expressions.  A pattern is a sequence of items:                 *)
(*   [t |-> "bol"]                         ^                               *)
(*   [t |-> "eol"]                         $                               *)
(*   [t |-> "set", parts, min, max]        a bracket expression repeated   *)
(*                                         min..max times (max = -1: no    *)
(*                                         upper limit)                    *)
(* The parts of a bracket expression are its ranges and escapes, written   *)
(* as in the pattern, and its single characters.                           *)
(***************************************************************************)
Bol == [t |-> "bol"]
Eol == [t |-> "eol"]
Cls(parts, min, max) == [t |-> "set", parts |-> parts, min |-> min, max |-> max]
Lit(c) == Cls({c}, 1, 1)

\* the characters one part of a bracket expression stands for
Members(part) == CASE part = "A-Z" -> Upper
                   [] part = "a-z" -> Lower
                   [] part = "0-9" -> Digit
                   [] part = "\\s" -> Whitespace
                   [] part = "\\u4e00-\\u9fff" -> Cjk
                   [] OTHER -> {part}

InClass(c, parts) == \E part \in parts : c \in Members(part)

\* the positions at which a match of pat[i..] that starts at pos can end
RECURSIVE MatchEnds(_, _, _, _)
MatchEnds(pat, i, s, pos) ==
    IF i > Len(pat) THEN {pos}
    ELSE LET it == pat[i] IN
         CASE it.t = "bol" -> IF pos = 0 THEN MatchEnds(pat, i + 1, s, pos) ELSE {}
           [] it.t = "eol" ->
                \* without re.MULTILINE, $ matches at the end of the string
                \* and just before a newline that ends the string
                IF pos = Len(s) \/ (pos = Len(s) - 1 /\ s[Len(s)] = "\n")
                THEN MatchEnds(pat, i + 1, s, pos) ELSE {}
           [] it.t = "set" ->
                LET most == IF it.max < 0 \/ it.max > Len(s) - pos
                            THEN Len(s) - pos ELSE it.max
                    ok(j) == \A q \in 1..j : InClass(s[pos + q], it.parts)
                IN UNION {MatchEnds(pat, i + 1, s, pos + j) :
                             j \in {n \in it.min..most : ok(n)}}

\* re.match(pattern, s) is not None: a match that starts at position 0
ReMatch(pat, s) == MatchEnds(pat, 1, s, 0) # {}

(***************************************************************************)
(* The patterns of the source.                                             *)
(***************************************************************************)
\* ^[a-zA-Z\s\u4e00-\u9fff]+$
PatientNamePattern == <<Bol, Cls({"a-z", "A-Z", "\\s", "\\u4e00-\\u9fff"}, 1, -1), Eol>>
\* ^[A-Z0-9]+$
PatientIdPattern == <<Bol, Cls({"A-Z", "0-9"}, 1, -1), Eol>>
\* ^[0-9\-\+\s\(\)]+$
PhonePattern == <<Bol, Cls({"0-9", "-", "+", "\\s", "(", ")"}, 1, -1), Eol>>
\* ^EMP[0-9]{4,8}$
EmployeeIdPattern == <<Bol, Lit("E"), Lit("M"), Lit("P"), Cls({"0-9"}, 4, 8), Eol>>
\* ^[a-zA-Z0-9._%+-]+@[a-zA-Z0-9.-]+\.[a-zA-Z]{2,}$
EmailPattern ==
    <<Bol, Cls({"a-z", "A-Z", "0-9", ".", "_", "%", "+", "-"}, 1, -1),
      Lit("@"), Cls({"a-z", "A-Z", "0-9", ".", "-"}, 1, -1),
      Lit("."), Cls({"a-z", "A-Z"}, 2, -1), Eol>>

(***************************************************************************)
(* The type-specific validators.                                           *)
(***************************************************************************)
_validate_email(email) == ReMatch(EmailPattern, PyStr(email))

\* re.sub(r'[\s\-\(\)\+]', '', str(phone))
PhoneCleaned(s) == SelectSeq(s, LAMBDA c : c \notin Whitespace \cup {"-", "(", ")", "+"})

_validate_phone(phone) ==
    LET cleaned == PhoneCleaned(PyStr(phone))
    IN Len(cleaned) >= 8 /\ AllIn(cleaned, Digit)

IsLeap(y) == (y % 4 = 0 /\ y % 100 # 0) \/ y % 400 = 0
DaysIn(y, m) == IF m = 2 THEN (IF IsLeap(y) THEN 29 ELSE 28)
                ELSE IF m \in {4, 6, 9, 11} THEN 30 ELSE 31

\* %m of strptime: 1[0-2]|0[1-9]|[1-9]
MonthToken(s) == /\ Len(s) \in {1, 2}
                 /\ AllIn(s, Digit)
                 /\ DigitsToNat(s) \in 1..12
\* %d of strptime: 3[01]|[12]\d|0[1-9]|[1-9]| [1-9]
DayToken(s) == \/ Len(s) \in {1, 2} /\ AllIn(s, Digit) /\ DigitsToNat(s) \in 1..31
               \/ Len(s) = 2 /\ s[1] = " " /\ s[2] \in Digit \ {"0"}

\* _validate_date that tests the shape only, not the month and day ranges
_validate_dateShapeOnly(date_str) ==
    LET s == PyStr(date_str) IN
    /\ Len(s) = 10
    /\ s[5] = "-" /\ s[8] = "-"
    /\ AllIn(SubSeq(s, 1, 4) \o SubSeq(s, 6, 7) \o SubSeq(s, 9, 10), Digit)

\* datetime.strptime(str(date_str), '%Y-%m-%d') raises no ValueError
_validate_date(date_str) ==
    LET s == PyStr(date_str) IN
    \E ml \in {1, 2}, dl \in {1, 2} :
        /\ Len(s) = 4 + 1 + ml + 1 + dl
        /\ AllIn(SubSeq(s, 1, 4), Digit)
        /\ s[5] = "-"
        /\ MonthToken(SubSeq(s, 6, 5 + ml))
        /\ s[6 + ml] = "-"
        /\ DayToken(SubSeq(s, 7 + ml, 6 + ml + dl))
        /\ LET y == DigitsToNat(SubSeq(s, 1, 4))
               m == DigitsToNat(SubSeq(s, 6, 5 + ml))
               d == DigitsToNat(Strip(SubSeq(s, 7 + ml, 6 + ml + dl)))
           IN y >= 1 /\ d <= DaysIn(y, m)

(***************************************************************************)
(* The template registry.  A field spec is a record whose DOMAIN is the    *)
(* set of keys of the Python dict, so `"max_length" in field_config` is    *)
(* "max_length" \in DOMAIN cfg.  fields and templates are sequences that   *)
(* keep the dicts' insertion order; the name of an item is its key in the  *)
(* Python dict.  "format", "example", "position", "category" and the       *)
(* compliance flags are display metadata that no operation of the model    *)
(* reads; they are left out, as are the top-level "description", "author", *)
(* "created_date" and "settings".                                          *)
(***************************************************************************)
Get(d, key, default) == IF key \in DOMAIN d THEN d[key] ELSE default

MedicalForm ==
    [name |-> "medical_form",
     description |-> "Medical form template",
     fields |-> <<
       [name |-> "patient_name",
        cfg |-> [type |-> "text", required |-> TRUE, max_length |-> 50,
                 validation_pattern |-> PatientNamePattern,
                 description |-> "Patient name"]],
       [name |-> "patient_id",
        cfg |-> [type |-> "text", required |-> TRUE, max_length |-> 20,
                 validation_pattern |-> PatientIdPattern,
                 description |-> "Patient ID"]],
       [name |-> "date_of_birth",
        cfg |-> [type |-> "date", required |-> TRUE,
                 description |-> "Date of birth"]],
       [name |-> "gender",
        cfg |-> [type |-> "select", required |-> TRUE,
                 options |-> <<Str(<<"M", "a", "l", "e">>),
                               Str(<<"F", "e", "m", "a", "l", "e">>),
                               Str(<<"O", "t", "h", "e", "r">>),
                               Str(<<"P", "r", "e", "f", "e", "r", " ", "n", "o", "t",
                                     " ", "t", "o", " ", "s", "a", "y">>)>>,
                 description |-> "Gender"]],
       [name |-> "emergency_contact",
        cfg |-> [type |-> "boolean", required |-> FALSE,
                 description |-> "Has emergency contact"]],
       [name |-> "phone",
        cfg |-> [type |-> "phone", required |-> FALSE, max_length |-> 20,
                 validation_pattern |-> PhonePattern,
                 description |-> "Phone number"]],
       [name |-> "address",
        cfg |-> [type |-> "textarea", required |-> FALSE, max_length |-> 200,
                 description |-> "Home address"]],
       [name |-> "insurance_id",
        cfg |-> [type |-> "text", required |-> FALSE, max_length |-> 30,
                 description |-> "Insurance number"]]>>]

EmployeeForm ==
    [name |-> "employee_form",
     description |-> "Employee data form",
     fields |-> <<
       [name |-> "employee_name",
        cfg |-> [type |-> "text", required |-> TRUE, max_length |-> 60,
                 description |-> "Employee name"]],
       [name |-> "employee_id",
        cfg |-> [type |-> "text", required |-> TRUE, max_length |-> 15,
                 validation_pattern |-> EmployeeIdPattern,
                 description |-> "Employee number"]],
       [name |-> "department",
        cfg |-> [type |-> "select", required |-> TRUE,
                 options |-> <<Str(<<"I", "T">>), Str(<<"H", "R">>),
                               Str(<<"F", "i", "n", "a", "n", "c", "e">>),
                               Str(<<"M", "a", "r", "k", "e", "t", "i", "n", "g">>),
                               Str(<<"S", "a", "l", "e", "s">>),
                               Str(<<"O", "p", "e", "r", "a", "t", "i", "o", "n", "s">>)>>,
                 description |-> "Department"]],
       [name |-> "position",
        cfg |-> [type |-> "text", required |-> TRUE, max_length |-> 50,
                 description |-> "Position"]],
       [name |-> "hire_date",
        cfg |-> [type |-> "date", required |-> TRUE,
                 description |-> "Hire date"]],
       [name |-> "salary",
        cfg |-> [type |-> "number", required |-> FALSE, min_value |-> 0,
                 max_value |-> 10000000, description |-> "Salary"]],
       [name |-> "remote_work",
        cfg |-> [type |-> "boolean", required |-> FALSE,
                 description |-> "Remote work allowed"]]>>]

\* the "validation_schema" of the built-in rules: every template is an object
\* with the keys "description" and "fields"
DefaultSchema ==
    [type |-> "object",
     properties |->
       [version |-> [type |-> "string"],
        templates |->
          [type |-> "object",
           patternProperties |->
             [any |-> [type |-> "object",
                       required |-> <<"description", "fields">>,
                       properties |-> [description |-> [type |-> "string"],
                                       fields |-> [type |-> "object"]]]]]]]

\* the rules _create_default_mapping_rules builds
DefaultRules ==
    [version |-> "1.0",
     templates |-> <<MedicalForm, EmployeeForm>>,
     validation_schema |-> DefaultSchema]

\* [A-Z0-9]+ : a pattern written without anchors
CodePattern == <<Cls({"A-Z", "0-9"}, 1, -1)>>

\* A rules file found at config_path and returned as parsed: one template whose
\* fields use the spec attributes the built-in templates leave unused (a number
\* with bounds 0..100 and no description, an unanchored pattern, an email).
SurveyForm ==
    [name |-> "survey_form",
     fields |-> <<
       [name |-> "score",
        cfg |-> [type |-> "number", required |-> TRUE, min_value |-> 0,
                 max_value |-> 100]],
       [name |-> "code",
        cfg |-> [type |-> "text", max_length |-> 5,
                 validation_pattern |-> CodePattern, description |-> "Code"]],
       [name |-> "contact",
        cfg |-> [type |-> "email", description |-> "Contact e-mail"]]>>]

LoadedRules == [version |-> "1.0", templates |-> <<SurveyForm>>]

\* A rules file that supplies the schema of the built-in rules and does not
\* conform to it: its template has no "description".
NonConformantRules ==
    [version |-> "1.0",
     templates |-> <<SurveyForm>>,
     validation_schema |-> DefaultSchema]

\* A rules file whose select field lists numbers as its options, beside a
\* number field with a lower bound and a length limit and a text field with a
\* length limit, options and a pattern.
RatingForm ==
    [name |-> "rating_form",
     description |-> "Rating form",
     fields |-> <<
       [name |-> "rating",
        cfg |-> [type |-> "select", required |-> TRUE,
                 options |-> <<Num(1), Num(2), Num(3)>>,
                 description |-> "Rating"]],
       [name |-> "amount",
        cfg |-> [type |-> "number", required |-> TRUE, min_value |-> 0,
                 max_length |-> 2, description |-> "Amount"]],
       [name |-> "grade",
        cfg |-> [type |-> "text", required |-> TRUE, max_length |-> 1,
                 options |-> <<Str(<<"A">>), Str(<<"B">>)>>,
                 validation_pattern |-> <<Bol, Cls({"A-Z"}, 1, -1), Eol>>,
                 description |-> "Grade"]]>>]

RatingRules == [version |-> "1.0", templates |-> <<RatingForm>>]

\* self.mapping_rules.get("templates", {})
TemplatesOf(rules) == Get(rules, "templates", << >>)

TemplateNames(rules) == {TemplatesOf(rules)[i].name : i \in 1..Len(TemplatesOf(rules))}

\* templates[template_name]
TemplateNamed(rules, template_name) ==
    LET ts == TemplatesOf(rules)
    IN ts[CHOOSE i \in 1..Len(ts) : ts[i].name = template_name]

FieldNames(fields) == {fields[i].name : i \in 1..Len(fields)}

\* fields[field_name]
FieldConfig(fields, field_name) ==
    fields[CHOOSE i \in 1..Len(fields) : fields[i].name = field_name].cfg

(***************************************************************************)
(* Records: a dict is a sequence of [key, value] with distinct keys, in    *)
(* insertion order.                                                        *)
(***************************************************************************)
Keys(d) == {d[i].key : i \in 1..Len(d)}

\* data[field_name]
Lookup(d, key) == d[CHOOSE i \in 1..Len(d) : d[i].key = key].value

(***************************************************************************)
(* validate_data.  A violation message is a record of the parts its        *)
(* f-string is built from: the wording (kind) and the interpolated values. *)
(***************************************************************************)
\* Cleared without the clear(): the list of the call before is kept
ClearedNot(errors) == errors

\* self.validation_errors.clear()
Cleared(errors) == << >>

\* MissingRequired with the absence test dropped: only a present, blank value counts
MissingRequiredBlankOnly(field_name, cfg, d) ==
    /\ Get(cfg, "required", FALSE)
    /\ field_name \in Keys(d)
    /\ Strip(PyStr(Lookup(d, field_name))) = << >>

\* MissingRequired that takes every falsy value for missing
MissingRequiredFalsy(field_name, cfg, d) ==
    /\ Get(cfg, "required", FALSE)
    /\ \/ field_name \notin Keys(d)
       \/ ~Truthy(Lookup(d, field_name))
       \/ Strip(PyStr(Lookup(d, field_name))) = << >>

\* the test that guards the "missing required field" message
MissingRequired(field_name, cfg, d) ==
    /\ Get(cfg, "required", FALSE)
    /\ \/ field_name \notin Keys(d)
       \/ Strip(PyStr(Lookup(d, field_name))) = << >>

\* the first loop: one message per required field that is absent or blank
RequiredErrors(fields, d) ==
    LET miss == SelectSeq(fields, LAMBDA f : MissingRequired(f.name, f.cfg, d))
    IN [i \in 1..Len(miss) |->
          [kind |-> "missing_required",
           name |-> Get(miss[i].cfg, "description", miss[i].name)]]

\* BoundErrors with exclusive bounds: <= and >= in place of < and >
BoundErrorsExclusive(field_name, num_value, cfg) ==
    (IF "min_value" \in DOMAIN cfg /\ num_value <= cfg["min_value"]
     THEN <<[kind |-> "below_min", name |-> field_name, num |-> cfg["min_value"]]>>
     ELSE << >>)
    \o
    (IF "max_value" \in DOMAIN cfg /\ num_value >= cfg["max_value"]
     THEN <<[kind |-> "above_max", name |-> field_name, num |-> cfg["max_value"]]>>
     ELSE << >>)

\* the min_value / max_value comparisons of a parsed number
BoundErrors(field_name, num_value, cfg) ==
    (IF "min_value" \in DOMAIN cfg /\ num_value < cfg["min_value"]
     THEN <<[kind |-> "below_min", name |-> field_name, num |-> cfg["min_value"]]>>
     ELSE << >>)
    \o
    (IF "max_value" \in DOMAIN cfg /\ num_value > cfg["max_value"]
     THEN <<[kind |-> "above_max", name |-> field_name, num |-> cfg["max_value"]]>>
     ELSE << >>)

\* the if / elif chain on field_type
TypeErrors(field_name, value, cfg) ==
    LET field_type == Get(cfg, "type", "text") IN
    CASE field_type = "email" ->
           IF ~_validate_email(value)
           THEN <<[kind |-> "bad_email", name |-> field_name]>> ELSE << >>
      [] field_type = "phone" ->
           IF ~_validate_phone(value)
           THEN <<[kind |-> "bad_phone", name |-> field_name]>> ELSE << >>
      [] field_type = "date" ->
           IF ~_validate_date(value)
           THEN <<[kind |-> "bad_date", name |-> field_name]>> ELSE << >>
      [] field_type = "number" ->
           LET f == PyFloat(value) IN
           IF f.ok THEN BoundErrors(field_name, f.n, cfg)
           ELSE IF f.exc = "ValueError"
                THEN <<[kind |-> "not_a_number", name |-> field_name]>>
                ELSE << >>
      [] OTHER -> << >>

\* the exception that escapes the type-specific check: `except ValueError`
\* catches nothing else that float(value) raises
TypeRaises(value, cfg) ==
    LET exc == PyFloat(value).exc
    IN IF Get(cfg, "type", "text") = "number" /\ exc \notin {"none", "ValueError"}
       THEN exc ELSE "none"

LengthErrors(field_name, value, cfg) ==
    IF "max_length" \in DOMAIN cfg /\ Len(PyStr(value)) > cfg["max_length"]
    THEN <<[kind |-> "too_long", name |-> field_name, num |-> cfg["max_length"]]>>
    ELSE << >>

OptionErrors(field_name, value, cfg) ==
    IF /\ "options" \in DOMAIN cfg
       /\ \A i \in 1..Len(cfg["options"]) : ~PyEq(value, cfg["options"][i])
    THEN <<[kind |-> "not_an_option", name |-> field_name, opts |-> cfg["options"]]>>
    ELSE << >>

\* the exception that escapes the enumeration check: ', '.join(options) raises
\* TypeError when an option is not a str
OptionRaises(value, cfg) ==
    IF /\ "options" \in DOMAIN cfg
       /\ \A i \in 1..Len(cfg["options"]) : ~PyEq(value, cfg["options"][i])
       /\ \E i \in 1..Len(cfg["options"]) : cfg["options"][i].k # "str"
    THEN "TypeError" ELSE "none"

PatternErrors(field_name, value, cfg) ==
    IF /\ "validation_pattern" \in DOMAIN cfg
       /\ ~ReMatch(cfg["validation_pattern"], PyStr(value))
    THEN <<[kind |-> "bad_format", name |-> field_name]>>
    ELSE << >>

\* EntryErrors that runs the pattern check first, before the type check
EntryErrorsPatternFirst(fields, entry) ==
    IF entry.key \in FieldNames(fields)
    THEN LET cfg == FieldConfig(fields, entry.key) IN
         PatternErrors(entry.key, entry.value, cfg)
           \o TypeErrors(entry.key, entry.value, cfg)
           \o LengthErrors(entry.key, entry.value, cfg)
           \o OptionErrors(entry.key, entry.value, cfg)
    ELSE << >>

\* EntryErrors with a complaint about keys the template does not define
EntryErrorsStrict(fields, entry) ==
    IF entry.key \in FieldNames(fields)
    THEN LET cfg == FieldConfig(fields, entry.key) IN
         TypeErrors(entry.key, entry.value, cfg)
           \o LengthErrors(entry.key, entry.value, cfg)
           \o OptionErrors(entry.key, entry.value, cfg)
           \o PatternErrors(entry.key, entry.value, cfg)
    ELSE <<[kind |-> "unknown_field", name |-> entry.key]>>

\* EntryErrors that stops at the first check that fails
EntryErrorsShortCircuit(fields, entry) ==
    IF entry.key \in FieldNames(fields)
    THEN LET cfg == FieldConfig(fields, entry.key) IN
         IF TypeErrors(entry.key, entry.value, cfg) # << >>
         THEN TypeErrors(entry.key, entry.value, cfg)
         ELSE IF LengthErrors(entry.key, entry.value, cfg) # << >>
         THEN LengthErrors(entry.key, entry.value, cfg)
         ELSE IF OptionErrors(entry.key, entry.value, cfg) # << >>
         THEN OptionErrors(entry.key, entry.value, cfg)
         ELSE PatternErrors(entry.key, entry.value, cfg)
    ELSE << >>

\* the exception that escapes the body of the second loop for one entry
EntryRaises(fields, entry) ==
    IF entry.key \in FieldNames(fields)
    THEN LET cfg == FieldConfig(fields, entry.key)
             exc == TypeRaises(entry.value, cfg)
         IN IF exc # "none" THEN exc ELSE OptionRaises(entry.value, cfg)
    ELSE "none"

\* the body of the second loop for one (field_name, value) of data.items():
\* the messages it appends, up to the statement that raises if one does
EntryErrors(fields, entry) ==
    IF entry.key \in FieldNames(fields)
    THEN LET cfg == FieldConfig(fields, entry.key)
             exc == EntryRaises(fields, entry)
         IN (IF exc = "OverflowError" THEN << >>
             ELSE TypeErrors(entry.key, entry.value, cfg)
                    \o LengthErrors(entry.key, entry.value, cfg))
            \o (IF exc # "none" THEN << >>
                ELSE OptionErrors(entry.key, entry.value, cfg)
                       \o PatternErrors(entry.key, entry.value, cfg))
    ELSE << >>

\* the second loop, over data.items() in order, up to the entry that raises
RECURSIVE ContentErrors(_, _)
ContentErrors(fields, d) ==
    IF d = << >> THEN << >>
    ELSE EntryErrors(fields, Head(d))
           \o (IF EntryRaises(fields, Head(d)) # "none" THEN << >>
               ELSE ContentErrors(fields, Tail(d)))

\* the exception that ends the second loop ("none": the loop runs to its end)
RECURSIVE ContentRaises(_, _)
ContentRaises(fields, d) ==
    IF d = << >> THEN "none"
    ELSE LET exc == EntryRaises(fields, Head(d))
         IN IF exc # "none" THEN exc ELSE ContentRaises(fields, Tail(d))

\* validate_data that rejects an unknown template name without a message
validate_dataSilent(errors, rules, d, template_name) ==
    LET start == Cleared(errors) IN
    IF template_name \notin TemplateNames(rules)
    THEN [errors |-> start, ret |-> FALSE, exc |-> "none"]
    ELSE LET fields == Get(TemplateNamed(rules, template_name), "fields", << >>)
             errs == start \o RequiredErrors(fields, d) \o ContentErrors(fields, d)
         IN [errors |-> errs, ret |-> (Len(errs) = 0),
             exc |-> ContentRaises(fields, d)]

\* validate_data that falls back to the first registered template when the
\* name is unknown
validate_dataDefaulting(errors, rules, d, template_name) ==
    LET start == Cleared(errors)
        template == IF template_name \in TemplateNames(rules)
                    THEN TemplateNamed(rules, template_name)
                    ELSE TemplatesOf(rules)[1]
        fields == Get(template, "fields", << >>)
        errs == start \o RequiredErrors(fields, d) \o ContentErrors(fields, d)
    IN [errors |-> errs, ret |-> (Len(errs) = 0), exc |-> ContentRaises(fields, d)]

\* the end of validate_data: is_valid = len(self.validation_errors) == 0 is
\* returned, unless the second loop raised
Returned(errs, exc) == [errors |-> errs, ret |-> (Len(errs) = 0), exc |-> exc]

\* validate_data(data, template_name) run when self.validation_errors holds
\* `errors`: the list it leaves in self.validation_errors, the value it
\* returns, and the exception that escapes it ("none": it returns)
validate_data(errors, rules, d, template_name) ==
    LET start == Cleared(errors) IN
    IF template_name \notin TemplateNames(rules)
    THEN [errors |-> Append(start, [kind |-> "no_such_template", name |-> template_name]),
          ret |-> FALSE, exc |-> "none"]
    ELSE LET fields == Get(TemplateNamed(rules, template_name), "fields", << >>)
         IN Returned(start \o RequiredErrors(fields, d) \o ContentErrors(fields, d),
                     ContentRaises(fields, d))

(***************************************************************************)
(* generate_statistics_report.  generated_time (the clock) is left out.    *)
(* fill_rate, the float total_filled / len(data_list) * 100, is kept as    *)
(* the exact fraction num / den.                                           *)
(***************************************************************************)
\* `if field_name in data and data[field_name]`
Filled(d, field_name) == field_name \in Keys(d) /\ Truthy(Lookup(d, field_name))

\* FieldStats that counts a field as filled whenever the record has the key
FieldStatsPresent(field, dl) ==
    LET filled == {i \in 1..Len(dl) : field.name \in Keys(dl[i])}
        unique_values == {PyStr(Lookup(dl[i], field.name)) : i \in filled}
    IN [name |-> field.name,
        total_filled |-> Cardinality(filled),
        total_empty |-> Len(dl) - Cardinality(filled),
        fill_rate |-> IF Len(dl) > 0
                      THEN [num |-> Cardinality(filled) * 100, den |-> Len(dl)]
                      ELSE [num |-> 0, den |-> 1],
        unique_values |-> unique_values,
        unique_count |-> Cardinality(unique_values),
        field_type |-> Get(field.cfg, "type", "text")]

\* the body of the loop over fields.items(): the statistics of one field
FieldStats(field, dl) ==
    LET filled == {i \in 1..Len(dl) : Filled(dl[i], field.name)}
        unique_values == {PyStr(Lookup(dl[i], field.name)) : i \in filled}
    IN [name |-> field.name,
        total_filled |-> Cardinality(filled),
        total_empty |-> Len(dl) - Cardinality(filled),
        fill_rate |-> IF Len(dl) > 0
                      THEN [num |-> Cardinality(filled) * 100, den |-> Len(dl)]
                      ELSE [num |-> 0, den |-> 1],
        unique_values |-> unique_values,
        unique_count |-> Cardinality(unique_values),
        field_type |-> Get(field.cfg, "type", "text")]

\* Tally that records a message once and never counts it again
RECURSIVE TallyOnce(_, _)
TallyOnce(common_errors, errors) ==
    IF errors = << >> THEN common_errors
    ELSE LET error == Head(errors) IN
         TallyOnce(IF error \in DOMAIN common_errors
                   THEN common_errors
                   ELSE common_errors @@ (error :> 1),
                   Tail(errors))

\* the inner loop over self.validation_errors: common_errors[error] += 1
RECURSIVE Tally(_, _)
Tally(common_errors, errors) ==
    IF errors = << >> THEN common_errors
    ELSE LET error == Head(errors) IN
         Tally(IF error \in DOMAIN common_errors
               THEN [common_errors EXCEPT ![error] = @ + 1]
               ELSE common_errors @@ (error :> 1),
               Tail(errors))

\* ValidationSummary whose else branch tallies the messages but does not
\* count the record as invalid
RECURSIVE ValidationSummaryUncounted(_, _, _, _, _)
ValidationSummaryUncounted(errors, rules, dl, template_name, summary) ==
    IF dl = << >> THEN [errors |-> errors, summary |-> summary, exc |-> "none"]
    ELSE LET r == validate_data(errors, rules, Head(dl), template_name) IN
         IF r.exc # "none"
         THEN [errors |-> r.errors, summary |-> summary, exc |-> r.exc]
         ELSE
         ValidationSummaryUncounted(r.errors, rules, Tail(dl), template_name,
             IF r.ret
             THEN [summary EXCEPT !.valid_records = @ + 1]
             ELSE [summary EXCEPT !.common_errors = Tally(@, r.errors)])

\* the loop `for data in data_list: if self.validate_data(data, template_name)`,
\* up to the call that raises if one does
RECURSIVE ValidationSummary(_, _, _, _, _)

\* one turn of the loop, r being the outcome of its validate_data call, and
\* the turns for the rest of the batch
ValidationTurn(r, rules, rest, template_name, summary) ==
    IF r.exc # "none"
    THEN [errors |-> r.errors, summary |-> summary, exc |-> r.exc]
    ELSE ValidationSummary(r.errors, rules, rest, template_name,
             IF r.ret
             THEN [summary EXCEPT !.valid_records = @ + 1]
             ELSE [summary EXCEPT !.invalid_records = @ + 1,
                                  !.common_errors = Tally(@, r.errors)])

ValidationSummary(errors, rules, dl, template_name, summary) ==
    IF dl = << >> THEN [errors |-> errors, summary |-> summary, exc |-> "none"]
    ELSE ValidationTurn(validate_data(errors, rules, Head(dl), template_name),
                        rules, Tail(dl), template_name, summary)

\* generate_statistics_report that reads the template with .get(name, {}):
\* an unknown name yields a summary over no fields
generate_statistics_reportLenient(errors, rules, dl, template_name) ==
    LET fields == IF template_name \in TemplateNames(rules)
                  THEN Get(TemplateNamed(rules, template_name), "fields", << >>)
                  ELSE << >>
        done == ValidationSummary(errors, rules, dl, template_name,
                    [valid_records |-> 0, invalid_records |-> 0,
                     common_errors |-> << >>])
    IN [errors |-> done.errors,
        ret |-> IF done.exc # "none"
                THEN [kind |-> "error", error |-> [exception |-> done.exc]]
                ELSE
                [kind |-> "stats",
                 total_records |-> Len(dl),
                 template_name |-> template_name,
                 field_statistics |->
                     [i \in 1..Len(fields) |-> FieldStats(fields[i], dl)],
                 validation_summary |-> done.summary]]

\* generate_statistics_report(data_list, template_name) run when
\* self.validation_errors holds `errors`: the list it leaves there and the
\* dict it returns.  A template_name that is no key of
\* self.mapping_rules["templates"] raises KeyError inside the try block, and so
\* does any exception that escapes a validate_data call; the handler returns
\* {"error": str(e)}.
\* the dict generate_statistics_report returns, done being the outcome of its
\* validation loop: `return stats`, or {"error": str(e)} from the handler
Report(done, fields, dl, template_name) ==
    [errors |-> done.errors,
     ret |-> IF done.exc # "none"
             THEN [kind |-> "error", error |-> [exception |-> done.exc]]
             ELSE [kind |-> "stats",
                   total_records |-> Len(dl),
                   template_name |-> template_name,
                   field_statistics |->
                       [i \in 1..Len(fields) |-> FieldStats(fields[i], dl)],
                   validation_summary |-> done.summary]]

\* generate_statistics_report that validates the batch on a list of its own
\* and leaves self.validation_errors as it found it
generate_statistics_reportScratch(errors, rules, dl, template_name) ==
    IF "templates" \notin DOMAIN rules \/ template_name \notin TemplateNames(rules)
    THEN [errors |-> errors,
          ret |-> [kind |-> "error",
                   error |-> [exception |-> "KeyError",
                              key |-> IF "templates" \notin DOMAIN rules
                                      THEN "templates" ELSE template_name]]]
    ELSE [Report(ValidationSummary(errors, rules, dl, template_name,
                     [valid_records |-> 0, invalid_records |-> 0,
                      common_errors |-> << >>]),
                 Get(TemplateNamed(rules, template_name), "fields", << >>),
                 dl, template_name)
          EXCEPT !.errors = errors]

generate_statistics_report(errors, rules, dl, template_name) ==
    IF "templates" \notin DOMAIN rules \/ template_name \notin TemplateNames(rules)
    THEN [errors |-> errors,
          ret |-> [kind |-> "error",
                   error |-> [exception |-> "KeyError",
                              key |-> IF "templates" \notin DOMAIN rules
                                      THEN "templates" ELSE template_name]]]
    ELSE Report(ValidationSummary(errors, rules, dl, template_name,
                    [valid_records |-> 0, invalid_records |-> 0,
                     common_errors |-> << >>]),
                Get(TemplateNamed(rules, template_name), "fields", << >>),
                dl, template_name)

(***************************************************************************)
(* Loading.  config_path is what __init__ keeps in self.config_path: the   *)
(* class of the object (pathlib.Path or str) and whether the caller gave   *)
(* it.  config_dir is the state of the directory of the rules file:        *)
(* "present", "absent" (its own parent exists) or "orphan" (its parent is  *)
(* absent too).  A file is absent, holds text that is no JSON document, or *)
(* holds a JSON document.                                                  *)
(***************************************************************************)
\* config_path=None: self.project_root / "config" / "mapping_rules.json"
DefaultPath == [cls |-> "Path", given |-> FALSE]
GivenPath == [cls |-> "Path", given |-> TRUE]
GivenStr == [cls |-> "str", given |-> TRUE]

NoFile == [kind |-> "absent"]
Garbage == [kind |-> "text"]

\* json.dump(value, f): the rules hold str keys and str, int, bool, list and
\* dict values only, which a JSON document keeps as they are
json_dump(value) == [kind |-> "json", doc |-> value]

\* json.load(f)
json_load(file) ==
    IF file.kind = "json" THEN [exc |-> "none", value |-> file.doc]
    ELSE [exc |-> "JSONDecodeError", value |-> << >>]

NoRules == [kind |-> "unloaded"]

\* _create_default_mapping_rules: the rules it returns, the directory and the
\* file it leaves, and the exception that escapes it
_create_default_mapping_rules(path, dir, file) ==
    IF path.cls = "str"
    THEN \* self.config_path.parent
         [exc |-> "AttributeError", rules |-> NoRules, dir |-> dir, file |-> file]
    ELSE IF dir = "orphan"
    THEN \* mkdir(exist_ok=True), without parents=True
         [exc |-> "FileNotFoundError", rules |-> NoRules, dir |-> dir, file |-> file]
    ELSE [exc |-> "none", rules |-> DefaultRules, dir |-> "present",
          file |-> json_dump(DefaultRules)]

\* _load_mapping_rules.  Every exception of the try block, the AttributeError
\* of self.config_path.exists() on a str included, leads to the handler, which
\* calls _create_default_mapping_rules outside any try; when the first call of
\* _create_default_mapping_rules (in the else branch) raises, the handler's
\* call raises the same way.
_load_mapping_rules(path, dir, file) ==
    LET parsed == json_load(file) IN
    IF path.cls = "Path" /\ file.kind # "absent" /\ parsed.exc = "none"
    THEN [exc |-> "none", rules |-> parsed.value, dir |-> dir, file |-> file]
    ELSE _create_default_mapping_rules(path, dir, file)

\* jsonschema.validate(instance, schema) raises no ValidationError, for the
\* keywords the schemas of the model use: the "required" keys of every template
Conforms(instance, schema) ==
    LET props == Get(schema, "properties", << >>)
        tschema == Get(props, "templates", << >>)
        each == Get(Get(tschema, "patternProperties", << >>), "any", << >>)
        required == Get(each, "required", << >>)
        ts == Get(instance, "templates", << >>)
    IN \A i \in 1..Len(ts) : \A j \in 1..Len(required) : required[j] \in DOMAIN ts[i]

\* validate_config: the bool it returns
validate_config(rules) ==
    LET schema == Get(rules, "validation_schema", << >>)
    IN IF schema # << >> THEN Conforms(rules, schema) ELSE TRUE

\* list_templates
list_templates(rules) == [i \in 1..Len(TemplatesOf(rules)) |-> TemplatesOf(rules)[i].name]

(***************************************************************************)
(* The caller's inputs.                                                    *)
(***************************************************************************)
En(key, value) == [key |-> key, value |-> value]

\* entries a caller of the built-in templates may put into a record
DefaultInputs ==
    {En("patient_name", Str(<<"A", "n", "n">>)),
     En("patient_id", Str(<<"A", "B", "1", "2">>)),
     En("patient_id", Str(<<"A", "B", "-", "1", "2">>)),
     En("patient_id", Str(<<"p", "1", "2", "3">>)),
     En("patient_id", Str(<<"A", "B", "1", "2", "\n">>)),
     En("date_of_birth", Str(<<"1", "9", "9", "0", "-", "0", "1", "-", "1", "5">>)),
     En("date_of_birth", Str(<<"1", "9", "9", "0", "-", "1", "3", "-", "4", "0">>))}

\* entries a caller of the loaded rules file may put into a record
LoadedInputs ==
    {En("score", Num(0 - 1)), En("score", Num(0)), En("score", Num(100)),
     En("score", Num(101)), En("score", Str(<<"a", "b", "c">>)),
     En("code", Str(<<"A", "B", "-", "1", "2">>)),
     En("code", Str(<<"a", "b", "-", "1", "2", "3">>)),
     En("contact", Str(<<"a", "@", "b">>)),
     En("note", Num(0))}

Inputs(rules) == IF rules = DefaultRules THEN DefaultInputs ELSE LoadedInputs

\* a template name that no rules file of the model registers
UnknownTemplate == "unknown_form"

TemplateArgs(rules) == TemplateNames(rules) \cup {UnknownTemplate}

(***************************************************************************)
(* Template lookup and schema export.                                      *)
(***************************************************************************)
\* A rules file whose templates carry a key "error": one beside its
\* description and fields, one as its only key, with the text that
\* get_template_info gives for the name UnknownTemplate.
IncidentForm ==
    [name |-> "incident_form",
     description |-> "Incident report",
     error |-> "Error code table, revision 2",
     fields |-> <<
       [name |-> "contact",
        cfg |-> [type |-> "email", required |-> TRUE,
                 description |-> "Contact e-mail"]]>>]

GhostForm ==
    [name |-> "ghost_form",
     error |-> [kind |-> "no_such_template", name |-> UnknownTemplate]]

IncidentRules == [version |-> "1.0", templates |-> <<IncidentForm, GhostForm>>]

\* the value the dict `templates` holds under a name: the template without
\* the name, which is its key
Body(template) == [k \in DOMAIN template \ {"name"} |-> template[k]]

\* get_template_info: templates.get(template_name, {"error": ...})
get_template_info(rules, template_name) ==
    IF template_name \in TemplateNames(rules)
    THEN Body(TemplateNamed(rules, template_name))
    ELSE [error |-> [kind |-> "no_such_template", name |-> template_name]]

\* the samples create_sample_data holds for the built-in templates
Samples ==
    [medical_form |->
       <<En("patient_name", Str(<<"U+9673", "U+5927", "U+660E">>)),
         En("patient_id", Str(<<"P", "6", "7", "8", "9", "0">>)),
         En("date_of_birth", Str(<<"1", "9", "8", "5", "-", "0", "3", "-", "2", "2">>)),
         En("gender", Str(<<"M", "a", "l", "e">>)),
         En("emergency_contact", Bool(TRUE)),
         En("phone", Str(<<"+", "8", "8", "6", "-", "2", "-", "9", "8", "7", "6",
                           "-", "5", "4", "3", "2">>)),
         En("address", Str(<<"U+65B0", "U+5317", "U+5E02">>)),
         En("insurance_id", Str(<<"I", "N", "S", "1", "2", "3", "4", "5", "6",
                                  "7", "8", "9">>))>>,
     employee_form |->
       <<En("employee_name", Str(<<"U+738B", "U+5C0F", "U+83EF">>)),
         En("employee_id", Str(<<"E", "M", "P", "5", "4", "3", "2", "1">>)),
         En("department", Str(<<"I", "T">>)),
         En("position", Str(<<"S", "o", "f", "t", "w", "a", "r", "e", " ",
                              "E", "n", "g", "i", "n", "e", "e", "r">>)),
         En("hire_date", Str(<<"2", "0", "2", "4", "-", "0", "1", "-", "1", "5">>)),
         En("salary", Num(75000)),
         En("remote_work", Bool(TRUE))>>]

\* the default value by type; f"Sample {field_name}" keeps the key as one token
SampleValue(field_name, cfg) ==
    LET field_type == Get(cfg, "type", "text") IN
    CASE field_type = "boolean" -> Bool(TRUE)
      [] field_type = "number" -> Num(100)
      [] field_type = "date" ->
           Str(<<"2", "0", "2", "4", "-", "0", "1", "-", "0", "1">>)
      [] field_type = "select" /\ "options" \in DOMAIN cfg -> cfg["options"][1]
      [] OTHER -> Str(<<"S", "a", "m", "p", "l", "e", " ", field_name>>)

\* field_config["options"][0] of an empty list
SampleRaises(fields) ==
    \E i \in 1..Len(fields) :
       /\ Get(fields[i].cfg, "type", "text") = "select"
       /\ "options" \in DOMAIN fields[i].cfg
       /\ fields[i].cfg["options"] = << >>

\* create_sample_data: the sample it returns, or the exception that escapes
create_sample_data(rules, template_name) ==
    LET info == get_template_info(rules, template_name)
        fields == Get(info, "fields", << >>)
    IN IF template_name \in DOMAIN Samples
       THEN [exc |-> "none", value |-> Samples[template_name]]
       ELSE IF "error" \in DOMAIN info
       THEN [exc |-> "none", value |-> << >>]
       ELSE IF SampleRaises(fields)
       THEN [exc |-> "IndexError", value |-> << >>]
       ELSE [exc |-> "none",
             value |-> [i \in 1..Len(fields) |->
                          En(fields[i].name, SampleValue(fields[i].name, fields[i].cfg))]]

\* export_template_schema: the bool it returns and the file it leaves at
\* output_path; `writable` says whether open(output_path, 'w') succeeds.
\* exported_time (the clock) is left out.
export_template_schema(rules, template_name, file, writable) ==
    LET template_info == get_template_info(rules, template_name)
        sample == create_sample_data(rules, template_name)
    IN IF "error" \in DOMAIN template_info \/ sample.exc # "none" \/ ~writable
       THEN [ret |-> FALSE, file |-> file]
       ELSE [ret |-> TRUE,
             file |-> json_dump(
                [template_name |-> template_name,
                 description |-> Get(template_info, "description", ""),
                 version |-> Get(rules, "version", "1.0"),
                 fields_schema |-> Get(template_info, "fields", << >>),
                 example_data |-> sample.value])]

(***************************************************************************)
(* The state machine: one mapper and its caller.                           *)
(*   mapping_rules      self.mapping_rules                                 *)
(*   validation_errors  self.validation_errors                             *)
(*   data, data_list    the record and the batch the caller holds          *)
(*   call, ret          the operation the last step ran and what it        *)
(*                      returned ("none" after a step of the caller)       *)
(*   repeated           the last step repeated the call of the step before *)
(***************************************************************************)
NoCall == [op |-> "none"]
NoRet == [kind |-> "none"]

\* no thread of a concurrent host is inside a call
NoThreads == << >>

\* the state __init__ leaves with config_path=None: the rules are the built-in
\* default set (no rules file was found) or the parsed rules file
Init ==
    /\ mapping_rules \in {DefaultRules, LoadedRules}
    /\ validation_errors = << >>
    /\ data = << >>
    /\ data_list = << >>
    /\ call = NoCall
    /\ ret = NoRet
    /\ repeated = FALSE
    /\ all_results = << >>
    /\ ctor = [kind |-> "ok", loads |-> 1,
               found |-> IF mapping_rules = DefaultRules THEN "absent" ELSE "json"]
    /\ config_path = DefaultPath
    /\ config_dir = "present"
    /\ config_file = json_dump(mapping_rules)
    /\ output_file = NoFile
    /\ threads = NoThreads

\* the caller sets data[key] = value for a new key
PutField(key, value) ==
    /\ Len(data) < MaxRecordLen
    /\ key \notin Keys(data)
    /\ data' = Append(data, En(key, value))
    /\ call' = NoCall
    /\ ret' = NoRet
    /\ repeated' = FALSE
    /\ UNCHANGED <<mapping_rules, validation_errors, data_list, all_results, ctor,
                   disk, threads>>

\* the caller appends a copy of its record to its batch
AppendRecord ==
    /\ Len(data_list) < MaxBatch
    /\ data_list' = Append(data_list, data)
    /\ call' = NoCall
    /\ ret' = NoRet
    /\ repeated' = FALSE
    /\ UNCHANGED <<mapping_rules, validation_errors, data, all_results, ctor,
                   disk, threads>>

\* what the caller of validate_data gets: the bool, or the exception
Outcome(r) == IF r.exc = "none" THEN [kind |-> "bool", value |-> r.ret]
              ELSE [kind |-> "raise", exception |-> r.exc]

\* Served by a mapper that registers a template name it is asked about
\* (templates.setdefault(template_name, {}))
ServedRegistering(errors, result, call_made) ==
    /\ validation_errors' = errors
    /\ ret' = result
    /\ call' = call_made
    /\ repeated' = (call = call_made)
    /\ mapping_rules' =
         IF call_made.template_name \in TemplateNames(mapping_rules)
         THEN mapping_rules
         ELSE [mapping_rules EXCEPT
                 !.templates = Append(@, [name |-> call_made.template_name])]
    /\ UNCHANGED <<data, data_list, all_results, ctor, disk, threads>>

\* the mapper served the call `call_made` with the effect r.errors on the list
\* and the result `result`
Served(errors, result, call_made) ==
    /\ validation_errors' = errors
    /\ ret' = result
    /\ call' = call_made
    /\ repeated' = (call = call_made)
    /\ UNCHANGED <<mapping_rules, data, data_list, all_results, ctor, disk, threads>>

\* r.errors and Outcome(r) of r == validate_data(...)
ServedValidateData(r, template_name) ==
    Served(r.errors, Outcome(r), [op |-> "validate_data", template_name |-> template_name])

\* mapper.validate_data(data, template_name)
ValidateData(template_name) ==
    ServedValidateData(validate_data(validation_errors, mapping_rules, data, template_name),
                       template_name)

ServedGenerateStatisticsReport(r, template_name) ==
    Served(r.errors, r.ret,
           [op |-> "generate_statistics_report", template_name |-> template_name])

\* mapper.generate_statistics_report(data_list, template_name)
GenerateStatisticsReport(template_name) ==
    ServedGenerateStatisticsReport(
        generate_statistics_report(validation_errors, mapping_rules, data_list,
                                   template_name),
        template_name)

Next ==
    \/ \E e \in Inputs(mapping_rules) : PutField(e.key, e.value)
    \/ AppendRecord
    \/ \E t \in TemplateArgs(mapping_rules) : ValidateData(t)
    \/ \E t \in TemplateArgs(mapping_rules) : GenerateStatisticsReport(t)

Spec == Init /\ [][Next]_vars

(***************************************************************************)
(* A caller whose records hold every kind of scalar: strings, booleans,    *)
(* ints that a float can hold and an int that it cannot.                   *)
(***************************************************************************)
ScalarInputs(rules) ==
    IF rules = DefaultRules
    THEN {En("salary", Num(75000)), En("salary", BigInt),
          En("employee_name", Str(<<"A", "n", "n">>)),
          En("hire_date", Str(<< >>))}
    ELSE {En("rating", Num(2)), En("rating", Num(4)),
          En("amount", BigInt),
          En("amount", Str(<<"a", "b", "c">>)),
          En("amount", Num(0)), En("amount", Bool(FALSE)),
          En("grade", Str(<<"B">>)), En("grade", Str(<<"a", "b">>)),
          En("grade", Str(<<" ">>))}

InitScalars ==
    /\ mapping_rules \in {DefaultRules, RatingRules}
    /\ validation_errors = << >>
    /\ data = << >>
    /\ data_list = << >>
    /\ call = NoCall
    /\ ret = NoRet
    /\ repeated = FALSE
    /\ all_results = << >>
    /\ ctor = [kind |-> "ok", loads |-> 1,
               found |-> IF mapping_rules = DefaultRules THEN "absent" ELSE "json"]
    /\ config_path = DefaultPath
    /\ config_dir = "present"
    /\ config_file = json_dump(mapping_rules)
    /\ output_file = NoFile
    /\ threads = NoThreads

NextScalars ==
    \/ \E e \in ScalarInputs(mapping_rules) : PutField(e.key, e.value)
    \/ AppendRecord
    \/ \E t \in TemplateArgs(mapping_rules) : ValidateData(t)
    \/ \E t \in TemplateArgs(mapping_rules) : GenerateStatisticsReport(t)

SpecScalars == InitScalars /\ [][NextScalars]_vars

(***************************************************************************)
(* A caller that keeps the violation lists of failed validations, as       *)
(* run_comprehensive_demo keeps them in all_results.                       *)
(*   all_results   the entries the caller appended; "errors" is the        *)
(*                 reference get_validation_errors returned, "returned" is *)
(*                 what the list held when validate_data returned          *)
(***************************************************************************)
\* get_validation_errors: `return self.validation_errors`, the list object that
\* __init__ bound and that validate_data clears and appends to in place
get_validation_errors == [ref |-> "self.validation_errors"]

\* the items a reference to a list shows when it is read
Contents(errors) ==
    IF errors.ref = "self.validation_errors" THEN validation_errors ELSE errors.items

\* the else branch of `if is_valid`: all_results.append({..., "errors":
\* mapper.get_validation_errors()})
StoreResult ==
    /\ call.op = "validate_data"
    /\ ret = [kind |-> "bool", value |-> FALSE]
    /\ Len(all_results) < MaxResults
    /\ all_results' = Append(all_results,
                             [template |-> call.template_name,
                              status |-> "validation_failed",
                              errors |-> get_validation_errors,
                              returned |-> validation_errors])
    /\ call' = NoCall
    /\ ret' = NoRet
    /\ repeated' = FALSE
    /\ UNCHANGED <<mapping_rules, validation_errors, data, data_list, ctor, disk,
                   threads>>

\* the entries this caller puts into its records
DemoInputs(rules) ==
    {e \in Inputs(rules) : e.key \in {"patient_name", "date_of_birth", "contact", "note"}}

NextDemo ==
    \/ \E e \in DemoInputs(mapping_rules) : PutField(e.key, e.value)
    \/ \E t \in TemplateArgs(mapping_rules) : ValidateData(t)
    \/ StoreResult
    \/ AppendRecord
    \/ \E t \in TemplateArgs(mapping_rules) : GenerateStatisticsReport(t)

SpecDemo == Init /\ [][NextDemo]_vars

(***************************************************************************)
(* Construction.  The caller names a rules file (or none), the file system *)
(* holds what it holds, and ProfessionalPDFMapper(config_path) runs        *)
(* _load_mapping_rules.  ctor records how construction ended, what the     *)
(* rules file was when the first mapper looked for it, and, once a second  *)
(* mapper was constructed on the same path, the rules of the first.        *)
(***************************************************************************)
NotConstructed == [kind |-> "none"]

\* the files a caller may find at config_path
RulesFiles ==
    {NoFile, Garbage, json_dump(LoadedRules), json_dump(NonConformantRules),
     json_dump(DefaultRules), json_dump(IncidentRules)}

\* the project root exists, so the directory of the default path has a parent;
\* a directory that is not there holds no file
InitLoad ==
    /\ mapping_rules = NoRules
    /\ validation_errors = << >>
    /\ data = << >>
    /\ data_list = << >>
    /\ call = NoCall
    /\ ret = NoRet
    /\ repeated = FALSE
    /\ all_results = << >>
    /\ ctor = NotConstructed
    /\ config_path \in {DefaultPath, GivenPath, GivenStr}
    /\ config_dir \in {"present", "absent", "orphan"}
    /\ config_path = DefaultPath => config_dir # "orphan"
    /\ config_file \in RulesFiles
    /\ config_dir # "present" => config_file = NoFile
    /\ output_file = NoFile
    /\ threads = NoThreads

\* the mapper that __init__ leaves, or the exception that escapes it
Constructed(r, found, loads, first) ==
    /\ mapping_rules' = r.rules
    /\ config_dir' = r.dir
    /\ config_file' = r.file
    /\ ctor' = IF r.exc = "none"
               THEN [kind |-> "ok", loads |-> loads, found |-> found, first |-> first]
               ELSE [kind |-> "raise", exception |-> r.exc, loads |-> loads,
                     found |-> found, first |-> first]
    /\ ret' = IF r.exc = "none" THEN [kind |-> "mapper"]
              ELSE [kind |-> "raise", exception |-> r.exc]
    /\ call' = [op |-> "__init__"]
    /\ validation_errors' = << >>
    /\ repeated' = FALSE
    /\ UNCHANGED <<data, data_list, all_results, config_path, output_file, threads>>

\* mapper = ProfessionalPDFMapper(config_path)
Construct ==
    /\ ctor.kind = "none"
    /\ Constructed(_load_mapping_rules(config_path, config_dir, config_file),
                   config_file.kind, 1, NoRules)

\* a second ProfessionalPDFMapper(config_path) on the path of the first
Reload ==
    /\ ctor.kind = "ok"
    /\ ctor.loads = 1
    /\ Constructed(_load_mapping_rules(config_path, config_dir, config_file),
                   ctor.found, 2, mapping_rules)

\* the call returned `result` and left the mapper as it was
Answered(result, op) ==
    /\ ret' = result
    /\ call' = [op |-> op]
    /\ repeated' = FALSE
    /\ UNCHANGED <<mapping_rules, validation_errors, data, data_list, all_results,
                   ctor, disk, threads>>

\* mapper.validate_config()
ValidateConfig ==
    /\ ctor.kind = "ok"
    /\ Answered([kind |-> "bool", value |-> validate_config(mapping_rules)],
                "validate_config")

\* mapper.list_templates()
ListTemplates ==
    /\ ctor.kind = "ok"
    /\ Answered([kind |-> "list", value |-> list_templates(mapping_rules)],
                "list_templates")

\* mapper.get_template_info(template_name)
GetTemplateInfo(template_name) ==
    /\ ctor.kind = "ok"
    /\ ret' = [kind |-> "dict", value |-> get_template_info(mapping_rules, template_name)]
    /\ call' = [op |-> "get_template_info", template_name |-> template_name]
    /\ repeated' = FALSE
    /\ UNCHANGED <<mapping_rules, validation_errors, data, data_list, all_results,
                   ctor, disk, threads>>

\* the file and the bool of r == export_template_schema(...)
Exported(r, template_name) ==
    /\ output_file' = r.file
    /\ ret' = [kind |-> "bool", value |-> r.ret]
    /\ call' = [op |-> "export_template_schema", template_name |-> template_name]
    /\ repeated' = FALSE
    /\ UNCHANGED <<mapping_rules, validation_errors, data, data_list, all_results,
                   ctor, config_path, config_dir, config_file, threads>>

\* mapper.export_template_schema(template_name, output_path), on a path where
\* nothing was exported yet
ExportTemplateSchema(template_name, writable) ==
    /\ ctor.kind = "ok"
    /\ output_file = NoFile
    /\ Exported(export_template_schema(mapping_rules, template_name, output_file,
                                       writable),
                template_name)

NextLoad ==
    \/ Construct
    \/ Reload
    \/ ValidateConfig
    \/ ListTemplates
    \/ \E t \in TemplateArgs(mapping_rules) : GetTemplateInfo(t)
    \/ \E t \in TemplateArgs(mapping_rules), writable \in BOOLEAN :
          ExportTemplateSchema(t, writable)
    \/ /\ ctor.kind = "ok"
       /\ \E e \in DemoInputs(mapping_rules) : PutField(e.key, e.value)
    \/ /\ ctor.kind = "ok"
       /\ \E t \in TemplateArgs(mapping_rules) : ValidateData(t)

SpecLoad == InitLoad /\ [][NextLoad]_vars

(***************************************************************************)
(* A caller that uses the read side of a constructed mapper in any order:  *)
(* validate_data, generate_statistics_report, list_templates and           *)
(* create_sample_data.                                                     *)
(***************************************************************************)
\* the sample of r == create_sample_data(...), or the exception
Sampled(r, template_name) ==
    /\ ret' = IF r.exc = "none" THEN [kind |-> "dict", value |-> r.value]
              ELSE [kind |-> "raise", exception |-> r.exc]
    /\ call' = [op |-> "create_sample_data", template_name |-> template_name]
    /\ repeated' = FALSE
    /\ UNCHANGED <<mapping_rules, validation_errors, data, data_list, all_results,
                   ctor, disk, threads>>

\* mapper.create_sample_data(template_name)
CreateSampleData(template_name) ==
    /\ ctor.kind = "ok"
    /\ Sampled(create_sample_data(mapping_rules, template_name), template_name)

NextCalls ==
    \/ \E e \in DemoInputs(mapping_rules) : PutField(e.key, e.value)
    \/ AppendRecord
    \/ \E t \in TemplateArgs(mapping_rules) : ValidateData(t)
    \/ \E t \in TemplateArgs(mapping_rules) : GenerateStatisticsReport(t)
    \/ ListTemplates
    \/ \E t \in TemplateArgs(mapping_rules) : CreateSampleData(t)

SpecCalls == Init /\ [][NextCalls]_vars

(***************************************************************************)
(* A concurrent host: two threads call validate_data on one mapper.  The   *)
(* interpreter runs list.clear(), each list.append(...) and len(...) as    *)
(* one step each and may switch threads between any two of them.           *)
(* threads[i] is where thread i is inside its call:                        *)
(*   pc     "idle", "appending" (the list was cleared, the messages of     *)
(*          todo are still to append), "returned", "done" (the caller has  *)
(*          read get_validation_errors())                                  *)
(*   known  the template name is registered                                *)
(*   verdict, seen   what validate_data returned and what the caller read  *)
(***************************************************************************)
Idle == [pc |-> "idle", data |-> << >>, template_name |-> "", todo |-> << >>,
         known |-> FALSE, verdict |-> FALSE, seen |-> << >>]

\* the records the threads validate
ThreadRecords(rules) ==
    IF rules = DefaultRules
    THEN {<< >>, <<En("patient_name", Str(<<"A", "n", "n">>))>>}
    ELSE {<< >>, <<En("score", Num(100))>>, <<En("score", Num(101))>>,
          <<En("score", Num(101)), En("code", Str(<<"a", "b", "-", "1", "2", "3">>))>>}

InitThreads ==
    /\ mapping_rules \in {DefaultRules, LoadedRules}
    /\ validation_errors = << >>
    /\ data = << >>
    /\ data_list = << >>
    /\ call = NoCall
    /\ ret = NoRet
    /\ repeated = FALSE
    /\ all_results = << >>
    /\ ctor = [kind |-> "ok", loads |-> 1,
               found |-> IF mapping_rules = DefaultRules THEN "absent" ELSE "json"]
    /\ config_path = DefaultPath
    /\ config_dir = "present"
    /\ config_file = json_dump(mapping_rules)
    /\ output_file = NoFile
    /\ threads = <<Idle, Idle>>

\* thread i moved on: the list and the thread are as given
Stepped(i, errors, thread) ==
    /\ validation_errors' = errors
    /\ threads' = [threads EXCEPT ![i] = thread]
    /\ UNCHANGED <<mapping_rules, data, data_list, call, ret, repeated, all_results,
                   ctor, disk>>

\* thread i enters validate_data(d, template_name): self.validation_errors.clear().
\* The messages the call goes on to append depend on d and the rules only.
Enter(i, d, template_name) ==
    /\ threads[i].pc = "idle"
    /\ Stepped(i, Cleared(validation_errors),
               [Idle EXCEPT !.pc = "appending", !.data = d,
                            !.template_name = template_name,
                            !.known = (template_name \in TemplateNames(mapping_rules)),
                            !.todo = validate_data(<< >>, mapping_rules, d,
                                                   template_name).errors])

\* the next self.validation_errors.append(...) of thread i
AppendMessage(i) ==
    /\ threads[i].pc = "appending"
    /\ threads[i].todo # << >>
    /\ Stepped(i, Append(validation_errors, Head(threads[i].todo)),
               [threads[i] EXCEPT !.todo = Tail(threads[i].todo)])

\* thread i returns: False after the "template does not exist" message, else
\* is_valid = len(self.validation_errors) == 0
Return(i) ==
    /\ threads[i].pc = "appending"
    /\ threads[i].todo = << >>
    /\ Stepped(i, validation_errors,
               [threads[i] EXCEPT !.pc = "returned",
                                  !.verdict = (threads[i].known
                                               /\ Len(validation_errors) = 0)])

\* the caller on thread i reads mapper.get_validation_errors()
ReadErrors(i) ==
    /\ threads[i].pc = "returned"
    /\ Stepped(i, validation_errors,
               [threads[i] EXCEPT !.pc = "done", !.seen = validation_errors])

NextThreads ==
    \E i \in 1..2 :
       \/ \E d \in ThreadRecords(mapping_rules), t \in TemplateArgs(mapping_rules) :
             Enter(i, d, t)
       \/ AppendMessage(i)
       \/ Return(i)
       \/ ReadErrors(i)

SpecThreads == InitThreads /\ [][NextThreads]_vars

(***************************************************************************)
(* The front ends: run_comprehensive_demo and interactive_demo on a        *)
(* ProfessionalPDFMapper, run_simple_demo and interactive_test on a        *)
(* SimplePDFMapper, the Streamlit form on an EnglishPDFMapper.  Each takes *)
(* a record (a sample, a test case, what the user typed), validates it and *)
(* goes on to the renderer or to the error branch.  ctor.cls is the class  *)
(* of the mapper the front end constructed.                                *)
(***************************************************************************)
\* required_fields of SimplePDFMapper.validate_data and EnglishPDFMapper.validate_data
RequiredFields == <<"patient_name", "patient_id", "date_of_birth">>

MissingFields(d) ==
    LET miss == SelectSeq(RequiredFields,
                          LAMBDA f : \/ f \notin Keys(d)
                                     \/ Strip(PyStr(Lookup(d, f))) = << >>)
    IN [i \in 1..Len(miss) |-> [kind |-> "missing_required", name |-> miss[i]]]

\* SimplePDFMapper.validate_data
SimplePDFMapper_validate_data(errors, d) ==
    Returned(Cleared(errors) \o MissingFields(d), "none")

\* ^P\d+$
PatientIdFormat == <<Bol, Lit("P"), Cls({"0-9"}, 1, -1), Eol>>

\* the format checks of EnglishPDFMapper.validate_data, in their order
FormatErrors(d) ==
    (IF "patient_id" \in Keys(d)
        /\ ~ReMatch(PatientIdFormat, PyStr(Lookup(d, "patient_id")))
     THEN <<[kind |-> "bad_patient_id"]>> ELSE << >>)
    \o (IF Filled(d, "phone") /\ ~ReMatch(PhonePattern, PyStr(Lookup(d, "phone")))
        THEN <<[kind |-> "bad_phone_characters"]>> ELSE << >>)
    \o (IF Filled(d, "email") /\ ~ReMatch(EmailPattern, PyStr(Lookup(d, "email")))
        THEN <<[kind |-> "bad_email_format"]>> ELSE << >>)
    \o (IF Filled(d, "insurance_number")
           /\ Len(PyStr(Lookup(d, "insurance_number"))) < 5
        THEN <<[kind |-> "insurance_number_too_short"]>> ELSE << >>)

\* EnglishPDFMapper.validate_data
EnglishPDFMapper_validate_data(errors, d) ==
    Returned(Cleared(errors) \o MissingFields(d) \o FormatErrors(d), "none")

\* the "Minimal Data" test case of run_simple_demo
MinimalData ==
    <<En("patient_name", Str(<<"B", "o", "b", " ", "W", "i", "l", "s", "o", "n">>)),
      En("patient_id", Str(<<"P", "9", "9", "9", "9", "9">>)),
      En("date_of_birth", Str(<<"1", "9", "7", "5", "-", "1", "2", "-", "0", "1">>)),
      En("gender", Str(<<"M", "a", "l", "e">>)),
      En("emergency_contact", Bool(FALSE))>>

\* what a user may type into one field of a form
Typed ==
    {En("patient_id", Str(<<"A", "B", "1", "2">>)),
     En("patient_name", Str(<<" ">>)),
     En("date_of_birth", Str(<<"1", "9", "9", "0", "-", "1", "-", "5">>)),
     En("date_of_birth", Str(<<"1", "9", "9", "0", "/", "0", "1", "/", "1", "5">>)),
     En("phone", Str(<<"a", "b", "c">>)),
     En("email", Str(<<"a", "@", "b">>)),
     En("insurance_number", Str(<<"I", "N", "S">>)),
     En("insurance_id", Str(<<"I", "N", "S">>))}

\* d without its k-th entry; d with d[e.key] = e.value
Without(d, k) == [i \in 1..(Len(d) - 1) |-> IF i < k THEN d[i] ELSE d[i + 1]]
With(d, e) ==
    IF e.key \in Keys(d)
    THEN [i \in 1..Len(d) |-> IF d[i].key = e.key THEN e ELSE d[i]]
    ELSE Append(d, e)

\* the records a front end may hand to validate_data: the sample, the sample
\* with one field left out, the sample with one field typed over
Variants(sample) ==
    {sample} \cup {Without(sample, k) : k \in 1..Len(sample)}
             \cup {With(sample, e) : e \in Typed}

FlowRecords(cls, rules) ==
    IF cls = "ProfessionalPDFMapper"
    THEN UNION {Variants(create_sample_data(rules, t).value) : t \in TemplateNames(rules)}
    ELSE Variants(MinimalData)

InitFlow ==
    /\ ctor \in {[kind |-> "ok", loads |-> 1, found |-> "absent", cls |-> c] :
                   c \in {"ProfessionalPDFMapper", "SimplePDFMapper", "EnglishPDFMapper"}}
    /\ mapping_rules = IF ctor.cls = "ProfessionalPDFMapper" THEN DefaultRules ELSE NoRules
    /\ validation_errors = << >>
    /\ data = << >>
    /\ data_list = << >>
    /\ call = NoCall
    /\ ret = NoRet
    /\ repeated = FALSE
    /\ all_results = << >>
    /\ config_path = DefaultPath
    /\ config_dir = "present"
    /\ config_file = IF ctor.cls = "ProfessionalPDFMapper"
                     THEN json_dump(DefaultRules) ELSE NoFile
    /\ output_file = NoFile
    /\ threads = NoThreads

\* the front end takes its next record
TakeRecord(d) ==
    /\ data' = d
    /\ call' = NoCall
    /\ ret' = NoRet
    /\ repeated' = FALSE
    /\ UNCHANGED <<mapping_rules, validation_errors, data_list, all_results, ctor,
                   disk, threads>>

\* mapper.validate_data(record[, template_name]) of the front end's mapper
FlowValidate(template_name) ==
    IF ctor.cls = "ProfessionalPDFMapper"
    THEN /\ template_name \in TemplateNames(mapping_rules)
         /\ ValidateData(template_name)
    ELSE /\ template_name = ""
         /\ ServedValidateData(
               IF ctor.cls = "SimplePDFMapper"
               THEN SimplePDFMapper_validate_data(validation_errors, data)
               ELSE EnglishPDFMapper_validate_data(validation_errors, data),
               template_name)

\* Passed without the test of the result
PassedOrNot(last_call, result) == last_call.op = "validate_data"

\* the test of `if mapper.validate_data(...)`: that call was the front end's
\* last step and it returned True
Passed(last_call, result) ==
    last_call.op = "validate_data" /\ result = [kind |-> "bool", value |-> TRUE]

\* the renderer (generate_professional_pdf, generate_simple_pdf,
\* generate_pdf_bytes) in the True branch; `ok`: it produced the document
Render(ok) ==
    /\ Passed(call, ret)
    /\ call' = [op |-> "render", template_name |-> call.template_name, data |-> data]
    /\ ret' = [kind |-> "bool", value |-> ok]
    /\ output_file' = IF ok THEN [kind |-> "pdf", data |-> data] ELSE output_file
    /\ repeated' = FALSE
    /\ UNCHANGED <<mapping_rules, validation_errors, data, data_list, all_results,
                   ctor, config_path, config_dir, config_file, threads>>

\* the else branch: the front end reads mapper.get_validation_errors()
ShowErrors ==
    /\ call.op = "validate_data"
    /\ ret = [kind |-> "bool", value |-> FALSE]
    /\ Answered([kind |-> "list", value |-> validation_errors], "get_validation_errors")

NextFlow ==
    \/ \E d \in FlowRecords(ctor.cls, mapping_rules) : TakeRecord(d)
    \/ \E t \in TemplateNames(mapping_rules) \cup {""} : FlowValidate(t)
    \/ \E ok \in BOOLEAN : Render(ok)
    \/ ShowErrors

SpecFlow == InitFlow /\ [][NextFlow]_vars

(***************************************************************************)
(* Properties.                                                             *)
(***************************************************************************)
Range(seq) == {seq[i] : i \in 1..Len(seq)}
Count(seq, x) == Cardinality({i \in 1..Len(seq) : seq[i] = x})

Registered(template_name) == template_name \in TemplateNames(mapping_rules)

\* the last step ran validate_data(data, call.template_name) on a registered template
Validated == call.op = "validate_data" /\ Registered(call.template_name)

\* the fields of the template the last call named
CallFields == Get(TemplateNamed(mapping_rules, call.template_name), "fields", << >>)

MissingMessage(field) ==
    [kind |-> "missing_required", name |-> Get(field.cfg, "description", field.name)]

\* a match of the pattern that spans the whole string
FullMatch(pat, s) == Len(s) \in MatchEnds(pat, 1, s, 0)

\* exactly YYYY-MM-DD: four, two and two digits, a real calendar date
StrictDate(s) ==
    /\ Len(s) = 10
    /\ s[5] = "-" /\ s[8] = "-"
    /\ AllIn(SubSeq(s, 1, 4) \o SubSeq(s, 6, 7) \o SubSeq(s, 9, 10), Digit)
    /\ LET y == DigitsToNat(SubSeq(s, 1, 4))
           m == DigitsToNat(SubSeq(s, 6, 7))
           d == DigitsToNat(SubSeq(s, 9, 10))
       IN y >= 1 /\ m \in 1..12 /\ d >= 1 /\ d <= DaysIn(y, m)

\* separators {space, -, (, ), +} stripped, the rest all digits and at least 8 long
StrictPhone(s) ==
    LET rest == SelectSeq(s, LAMBDA c : c \notin {" ", "-", "(", ")", "+"})
    IN Len(rest) >= 8 /\ AllIn(rest, Digit)

When(cond, message) == IF cond THEN {message} ELSE {}

\* the messages the content rules of the field validator owe one value:
\* type-specific rule, bounds, max_length, options, validation_pattern
OwedMessages(field_name, value, cfg) ==
    LET type == Get(cfg, "type", "text")
        str == PyStr(value)
        f == PyFloat(value)
    IN    When(type = "email" /\ ~FullMatch(EmailPattern, str),
               [kind |-> "bad_email", name |-> field_name])
     \cup When(type = "phone" /\ ~StrictPhone(str),
               [kind |-> "bad_phone", name |-> field_name])
     \cup When(type = "date" /\ ~StrictDate(str),
               [kind |-> "bad_date", name |-> field_name])
     \cup When(type = "number" /\ ~f.ok,
               [kind |-> "not_a_number", name |-> field_name])
     \cup When(type = "number" /\ f.ok /\ "min_value" \in DOMAIN cfg
                 /\ f.n < Get(cfg, "min_value", 0),
               [kind |-> "below_min", name |-> field_name,
                num |-> Get(cfg, "min_value", 0)])
     \cup When(type = "number" /\ f.ok /\ "max_value" \in DOMAIN cfg
                 /\ f.n > Get(cfg, "max_value", 0),
               [kind |-> "above_max", name |-> field_name,
                num |-> Get(cfg, "max_value", 0)])
     \cup When("max_length" \in DOMAIN cfg /\ Len(str) > Get(cfg, "max_length", 0),
               [kind |-> "too_long", name |-> field_name,
                num |-> Get(cfg, "max_length", 0)])
     \cup When("options" \in DOMAIN cfg /\ value \notin Range(Get(cfg, "options", << >>)),
               [kind |-> "not_an_option", name |-> field_name,
                opts |-> Get(cfg, "options", << >>)])
     \cup When("validation_pattern" \in DOMAIN cfg
                 /\ ~FullMatch(Get(cfg, "validation_pattern", << >>), str),
               [kind |-> "bad_format", name |-> field_name])

\* C1 (completeness): after validate_data on a registered template the
\* violation list holds a "missing required field" message for every required
\* field that is absent or blank, and a message for every content rule (type,
\* bounds, max_length, options, validation_pattern) that a key the template
\* defines violates; none is omitted.
C1_Completeness ==
    Validated =>
      /\ \A i \in 1..Len(CallFields) :
            (/\ Get(CallFields[i].cfg, "required", FALSE)
             /\ \/ CallFields[i].name \notin Keys(data)
                \/ Strip(PyStr(Lookup(data, CallFields[i].name))) = << >>)
            => MissingMessage(CallFields[i]) \in Range(validation_errors)
      /\ \A j \in 1..Len(data) :
            data[j].key \in FieldNames(CallFields)
            => OwedMessages(data[j].key, data[j].value,
                            FieldConfig(CallFields, data[j].key))
                 \subseteq Range(validation_errors)

\* C2 (required-field gate): when the validated record lacks the key of a
\* required field, the verdict is False whatever the other keys hold, and the
\* list holds a message with the field's description (its key when the spec
\* has no description).
C2_RequiredGate ==
    Validated =>
      \A i \in 1..Len(CallFields) :
         (Get(CallFields[i].cfg, "required", FALSE) /\ CallFields[i].name \notin Keys(data))
         => /\ ret = [kind |-> "bool", value |-> FALSE]
            /\ MissingMessage(CallFields[i]) \in Range(validation_errors)

\* the case of C2: a required field without description is absent from a
\* record whose own keys are all in order
C2_Witness ==
    /\ Validated
    /\ data # << >>
    /\ ContentErrors(CallFields, data) = << >>
    /\ \E i \in 1..Len(CallFields) :
          /\ Get(CallFields[i].cfg, "required", FALSE)
          /\ "description" \notin DOMAIN CallFields[i].cfg
          /\ CallFields[i].name \notin Keys(data)
    /\ ret.value = FALSE

\* the record without the keys the template does not define
KnownPart(fields, d) == SelectSeq(d, LAMBDA e : e.key \in FieldNames(fields))

\* C3 (unknown-field tolerance): the verdict and the violation list of a
\* record are those of the record without the keys the template does not
\* define, whatever values these keys carry.
C3_UnknownFieldTolerance ==
    Validated =>
      LET alone == validate_data(<< >>, mapping_rules, KnownPart(CallFields, data),
                                 call.template_name)
      IN ret = [kind |-> "bool", value |-> alone.ret] /\ validation_errors = alone.errors

\* the case of C3: a record with a defined key that violates a rule and a key
\* the template does not define
C3_Witness ==
    /\ Validated
    /\ \E j \in 1..Len(data) : data[j].key \notin FieldNames(CallFields)
    /\ \E j \in 1..Len(data) : EntryErrors(CallFields, data[j]) # << >>

\* C4 (idempotence): a validate_data call that repeats the call just made, on
\* the same record and template, returns the same verdict and leaves an
\* identical violation list, whatever the mapper validated before.
C4_Idempotence ==
    [][(call.op = "validate_data" /\ call' = call /\ data' = data)
       => (ret' = ret /\ validation_errors' = validation_errors)]_vars

\* the case of C4: the call was repeated on a record that has violations
C4_Witness ==
    /\ repeated
    /\ Validated
    /\ Len(validation_errors) >= 2

\* the records of the batch that validate_data accepts when validated alone
ValidAlone(dl, template_name) ==
    {i \in 1..Len(dl) : validate_data(<< >>, mapping_rules, dl[i], template_name).ret}

\* the last step ran generate_statistics_report(data_list, call.template_name)
Summarized == call.op = "generate_statistics_report"

\* C5 (statistics consistency): over a batch of N records of which M are
\* valid when validated alone, the report has valid_records = M,
\* invalid_records = N - M and total_records = N.
C5_StatisticsConsistency ==
    (Summarized /\ Registered(call.template_name)) =>
      /\ ret.kind = "stats"
      /\ ret.total_records = Len(data_list)
      /\ ret.validation_summary.valid_records
           = Cardinality(ValidAlone(data_list, call.template_name))
      /\ ret.validation_summary.invalid_records
           = Len(data_list) - Cardinality(ValidAlone(data_list, call.template_name))

\* the case of C5: a batch with a valid and an invalid record
C5_Witness ==
    /\ Summarized
    /\ Registered(call.template_name)
    /\ ValidAlone(data_list, call.template_name) # {}
    /\ ValidAlone(data_list, call.template_name) # 1..Len(data_list)

\* the entries of the validated record that are numbers of a field of type
\* number with both bounds
BoundedNumbers ==
    {j \in 1..Len(data) :
        /\ data[j].key \in FieldNames(CallFields)
        /\ LET cfg == FieldConfig(CallFields, data[j].key)
           IN /\ Get(cfg, "type", "text") = "number"
              /\ {"min_value", "max_value"} \subseteq DOMAIN cfg
              /\ PyFloat(data[j].value).ok}

\* C6 (inclusive bounds): a number equal to min_value or max_value gets no
\* bound message, a number below min_value exactly one "less than minimum"
\* message, a number above max_value exactly one "greater than maximum" one.
C6_InclusiveBounds ==
    Validated =>
      \A j \in BoundedNumbers :
         LET cfg == FieldConfig(CallFields, data[j].key)
             n == PyFloat(data[j].value).n
             below == Count(validation_errors,
                            [kind |-> "below_min", name |-> data[j].key,
                             num |-> cfg["min_value"]])
             above == Count(validation_errors,
                            [kind |-> "above_max", name |-> data[j].key,
                             num |-> cfg["max_value"]])
         IN /\ below = (IF n < cfg["min_value"] THEN 1 ELSE 0)
            /\ above = (IF n > cfg["max_value"] THEN 1 ELSE 0)
            /\ n \in {cfg["min_value"], cfg["max_value"]} => below + above = 0

\* the case of C6: a number on its upper bound was validated and accepted
C6_Witness ==
    /\ Validated
    /\ \E j \in BoundedNumbers :
          PyFloat(data[j].value).n = FieldConfig(CallFields, data[j].key)["max_value"]
    /\ ret.value = TRUE

\* the entries of the validated record whose field has a validation_pattern
Patterned ==
    {j \in 1..Len(data) :
        /\ data[j].key \in FieldNames(CallFields)
        /\ "validation_pattern" \in DOMAIN FieldConfig(CallFields, data[j].key)}

\* C7 (pattern anchoring): the pattern check passes only if the whole
\* stringified value matches the pattern; a value of which only a part matches
\* gets the format message.
C7_PatternAnchoring ==
    Validated =>
      \A j \in Patterned :
         [kind |-> "bad_format", name |-> data[j].key] \notin Range(validation_errors)
         => FullMatch(FieldConfig(CallFields, data[j].key)["validation_pattern"],
                      PyStr(data[j].value))

\* {"patient_id": "p123", "date_of_birth": "1990-13-40"}
ExampleRecord ==
    <<En("patient_id", Str(<<"p", "1", "2", "3">>)),
      En("date_of_birth", Str(<<"1", "9", "9", "0", "-", "1", "3", "-", "4", "0">>))>>

ExampleValidated ==
    /\ call = [op |-> "validate_data", template_name |-> "medical_form"]
    /\ Registered("medical_form")
    /\ data = ExampleRecord

\* C8 as claimed (example scenario): the example record validated against
\* medical_form yields exactly three violations: missing patient_name,
\* pattern mismatch on patient_id, invalid date on date_of_birth; verdict False.
C8_ThreeViolations ==
    ExampleValidated =>
      /\ ret = [kind |-> "bool", value |-> FALSE]
      /\ validation_errors =
           <<[kind |-> "missing_required", name |-> "Patient name"],
             [kind |-> "bad_format", name |-> "patient_id"],
             [kind |-> "bad_date", name |-> "date_of_birth"]>>

\* C8 as amended: medical_form also requires gender, so the example record
\* yields exactly four violations, in this order: missing patient_name,
\* missing gender, pattern mismatch on patient_id, invalid date on
\* date_of_birth; verdict False.
C8_FourViolations ==
    ExampleValidated =>
      /\ ret = [kind |-> "bool", value |-> FALSE]
      /\ validation_errors =
           <<[kind |-> "missing_required", name |-> "Patient name"],
             [kind |-> "missing_required", name |-> "Gender"],
             [kind |-> "bad_format", name |-> "patient_id"],
             [kind |-> "bad_date", name |-> "date_of_birth"]>>

\* the case of C8: the example record was validated against medical_form
C8_Witness == ExampleValidated /\ ret.kind = "bool"

\* C9 as claimed: validate_data with a template name that is not registered
\* fails with an exception surfaced to the caller.
C9_Raises ==
    (call.op = "validate_data" /\ ~Registered(call.template_name))
    => ret.kind = "raise"

\* C9 as amended: validate_data with a template name that is not registered
\* raises nothing; it returns False and leaves exactly one "template does not
\* exist" message, the record being validated against no template.
C9_ReturnsFalse ==
    (call.op = "validate_data" /\ ~Registered(call.template_name))
    => /\ ret = [kind |-> "bool", value |-> FALSE]
       /\ validation_errors = <<[kind |-> "no_such_template", name |-> call.template_name]>>

\* the case of C9: an unregistered name was given with a record that would
\* pass the first registered template
C9_Witness ==
    /\ call.op = "validate_data"
    /\ ~Registered(call.template_name)
    /\ validate_data(<< >>, mapping_rules, data, TemplatesOf(mapping_rules)[1].name).ret

\* C10 as claimed: generate_statistics_report with a template name that is
\* not registered fails with the same exception as validate_data.
C10_Raises ==
    (Summarized /\ ~Registered(call.template_name)) => ret.kind = "raise"

\* C10 as amended: generate_statistics_report with a template name that is not
\* registered raises nothing and runs no validation: it returns a dict that
\* holds only the text of the caught KeyError, no summary and no counts, and
\* leaves the violation list as it was.
C10_ReturnsErrorDict ==
    [][(call'.op = "generate_statistics_report" /\ ~Registered(call'.template_name))
       => /\ ret' = [kind |-> "error",
                     error |-> [exception |-> "KeyError", key |-> call'.template_name]]
          /\ validation_errors' = validation_errors]_vars

\* the case of C10: an unregistered name was given with a batch, on a mapper
\* that holds violations of an earlier validation
C10_Witness ==
    /\ Summarized
    /\ ~Registered(call.template_name)
    /\ data_list # << >>
    /\ validation_errors # << >>

\* the place of a message's wording in the order of the checks: the
\* required-field loop, then per key the type-specific check, the length
\* check, the enumeration check, the pattern check
KindRank(kind) ==
    CASE kind = "missing_required" -> 0
      [] kind \in {"bad_email", "bad_phone", "bad_date", "not_a_number",
                   "below_min", "above_max"} -> 1
      [] kind = "too_long" -> 2
      [] kind = "not_an_option" -> 3
      [] kind = "bad_format" -> 4
      [] OTHER -> 5

\* the place in the template of the field a "missing required field" message names
FieldPos(name) ==
    CHOOSE i \in 1..Len(CallFields) :
        Get(CallFields[i].cfg, "description", CallFields[i].name) = name

\* the place in the record of the key a content message names
KeyPos(name) == CHOOSE j \in 1..Len(data) : data[j].key = name

\* C11 (violation order): in the list validate_data leaves, every "missing
\* required field" message precedes every content message; the "missing"
\* messages follow the template's field order; the content messages follow the
\* record's key order, and within one key the order type-specific check,
\* length check, enumeration check, pattern check.
C11_ViolationOrder ==
    Validated =>
      \A p, q \in 1..Len(validation_errors) :
         p < q =>
           LET a == validation_errors[p]
               b == validation_errors[q]
           IN /\ b.kind = "missing_required" => a.kind = "missing_required"
              /\ (a.kind = "missing_required" /\ b.kind = "missing_required")
                   => FieldPos(a.name) < FieldPos(b.name)
              /\ (a.kind # "missing_required" /\ b.kind # "missing_required")
                   => /\ KeyPos(a.name) <= KeyPos(b.name)
                      /\ a.name = b.name => KindRank(a.kind) <= KindRank(b.kind)

\* the case of C11: a list with a "missing" message, two content messages of
\* one key from different checks, and a content message of a later key
C11_Witness ==
    /\ Validated
    /\ \E p, q, r \in 1..Len(validation_errors) :
          /\ validation_errors[p].kind = "missing_required"
          /\ validation_errors[q].kind = "too_long"
          /\ validation_errors[r].kind = "bad_format"
          /\ validation_errors[q].name = validation_errors[r].name
    /\ \E p, q \in 1..Len(validation_errors) :
          /\ KindRank(validation_errors[p].kind) \in 1..4
          /\ KindRank(validation_errors[q].kind) \in 1..4
          /\ validation_errors[p].name # validation_errors[q].name

\* C12 (verdict): validate_data returns True exactly when the violation list
\* readable right after the call is empty, also for a template name that is
\* not registered.
C12_Verdict ==
    call.op = "validate_data" =>
      /\ ret.kind = "bool"
      /\ ret.value <=> (validation_errors = << >>)

\* the case of C12: a record that would pass the first registered template
\* was validated under a name that is not registered
C12_Witness ==
    /\ call.op = "validate_data"
    /\ ~Registered(call.template_name)
    /\ data # << >>
    /\ validate_data(<< >>, mapping_rules, data, TemplatesOf(mapping_rules)[1].name).ret
    /\ ret.kind = "bool"

\* C13 (lifecycle of the violation list): the list a caller obtained through
\* get_validation_errors for one validate_data call keeps the content it had
\* when that call returned, whatever validate_data or
\* generate_statistics_report calls the mapper serves later.
C13_NeverMutated ==
    \A i \in 1..Len(all_results) :
       Contents(all_results[i].errors) = all_results[i].returned

\* C14 (the field checks never raise): for a record of scalars and a template
\* of field specs, validate_data ends by returning a verdict; every failure is
\* a message of the list and no exception escapes.
C14_NeverRaises ==
    call.op = "validate_data" => ret.kind = "bool"

\* C15 (content messages name the field by its description): every message of
\* a failed content check (type, bounds, length, enumeration, pattern) names a
\* field of the record by the description of its field spec when the spec has
\* one, and by its key only when it has none.
C15_DescriptionNamed ==
    Validated =>
      \A p \in 1..Len(validation_errors) :
         validation_errors[p].kind # "missing_required" =>
           \E i \in 1..Len(CallFields) :
              /\ CallFields[i].name \in Keys(data)
              /\ validation_errors[p].name =
                    Get(CallFields[i].cfg, "description", CallFields[i].name)

\* the first mapper looked for the rules file and found it in the state `kind`
Loaded(kind) == ctor.kind # "none" /\ ctor.found = kind

\* C16 (absent rules file): construction on a path where no rules file exists
\* returns a mapper whose rules are the built-in default set (medical_form,
\* employee_form) and leaves that set written at the path; a second
\* construction on the path yields the same templates and fields.
C16_DefaultsPersisted ==
    Loaded("absent") =>
      /\ ctor.kind = "ok"
      /\ list_templates(mapping_rules) = <<"medical_form", "employee_form">>
      /\ TemplatesOf(mapping_rules) = TemplatesOf(DefaultRules)
      /\ json_load(config_file).exc = "none"
      /\ json_load(config_file).value = DefaultRules
      /\ ctor.loads = 2 => TemplatesOf(ctor.first) = TemplatesOf(mapping_rules)

\* C17 (unparsable rules file): construction on a path whose file cannot be
\* parsed does not fail; the mapper's rules are exactly the built-in default
\* set, so list_templates and validate_data work afterwards.
C17_RecoversWithDefaults ==
    Loaded("text") =>
      /\ ctor.kind = "ok"
      /\ mapping_rules = DefaultRules
      /\ call.op = "list_templates"
           => ret = [kind |-> "list", value |-> <<"medical_form", "employee_form">>]
      /\ call.op = "validate_data" => ret.kind = "bool"

\* C18 (schema conformance): a rules file that supplies a validation_schema
\* and does not conform to it makes construction fail with ConfigError; such
\* rules are never the rules of a constructed mapper.
C18_NonConformantRejected ==
    /\ (ctor.kind # "none" /\ json_load(config_file).exc = "none"
          /\ ~validate_config(json_load(config_file).value))
         => (ctor.kind = "raise" /\ ctor.exception = "ConfigError")
    /\ ctor.kind = "ok" => validate_config(mapping_rules)

\* the test by which export_template_schema and create_sample_data tell the
\* not-found outcome from a template
IsNotFound(info) == "error" \in DOMAIN info

\* C19 (template lookup): get_template_info gives a not-found outcome for a
\* name that is not registered and exactly the template for a registered name,
\* and the two can always be told apart: no registered template tests as
\* not found, and none equals the outcome of a name that is not registered.
\* export_template_schema of a name that is not registered returns False and
\* writes no file.
C19_NotFoundDistinct ==
    /\ call.op = "get_template_info" =>
         IF Registered(call.template_name)
         THEN /\ ret.value = Body(TemplateNamed(mapping_rules, call.template_name))
              /\ ~IsNotFound(ret.value)
              /\ ret.value # get_template_info(mapping_rules, UnknownTemplate)
         ELSE IsNotFound(ret.value)
    /\ (call.op = "export_template_schema" /\ ~Registered(call.template_name))
         => (ret = [kind |-> "bool", value |-> FALSE] /\ output_file = NoFile)

\* C20 (no locking needed): a validate_data call that ran interleaved with
\* another call on the same mapper returned the verdict, and showed its caller
\* the violation list, that the call gives when it runs alone.
C20_AsIfAlone ==
    \A i \in 1..Len(threads) :
       threads[i].pc = "done" =>
         /\ threads[i].verdict =
               validate_data(<< >>, mapping_rules, threads[i].data,
                             threads[i].template_name).ret
         /\ threads[i].seen =
               validate_data(<< >>, mapping_rules, threads[i].data,
                             threads[i].template_name).errors

\* the verdict of the front end's mapper on record d
FlowVerdict(d, template_name) ==
    CASE ctor.cls = "ProfessionalPDFMapper" ->
           validate_data(<< >>, mapping_rules, d, template_name).ret
      [] ctor.cls = "SimplePDFMapper" -> SimplePDFMapper_validate_data(<< >>, d).ret
      [] OTHER -> EnglishPDFMapper_validate_data(<< >>, d).ret

\* C21 (render after validate): every step that invokes the renderer for a
\* record directly follows a validate_data call on that mapper that returned
\* True for that same record (and template); a record that does not pass is
\* never rendered.
C21_RenderAfterValidate ==
    [][call'.op = "render" =>
         /\ call.op = "validate_data"
         /\ ret = [kind |-> "bool", value |-> TRUE]
         /\ call'.data = data
         /\ call'.template_name = call.template_name
         /\ FlowVerdict(call'.data, call'.template_name)]_vars

\* the case of C21: the renderer produced the document of a record that passes
\* the validation of its front end
C21_Witness ==
    /\ call.op = "render"
    /\ ret = [kind |-> "bool", value |-> TRUE]
    /\ output_file.kind = "pdf"
    /\ FlowVerdict(output_file.data, call.template_name)

\* the number of messages of the kind `kind` that name the key `key`
Said(key, kind) ==
    Cardinality({p \in 1..Len(validation_errors) :
                   /\ validation_errors[p].kind = kind
                   /\ validation_errors[p].name = key})

One(cond) == IF cond THEN 1 ELSE 0

Holding(name) ==
    {i \in 1..Len(data_list) :
        \E j \in 1..Len(data_list[i]) :
           data_list[i][j].key = name /\ Truthy(data_list[i][j].value)}

\* the stringified values those records hold under the key
HeldTexts(name) ==
    UNION {{PyStr(data_list[i][j].value) :
               j \in {k \in 1..Len(data_list[i]) : data_list[i][k].key = name}} :
           i \in Holding(name)}

\* C23 (per-field statistics): the report has one entry per template field,
\* with total_filled + total_empty = total_records, total_filled the number of
\* records that hold a truthy value for the field, unique_count the number of
\* distinct stringified filled values (at most total_filled), and fill_rate =
\* total_filled / total_records * 100, which is 0 for the empty batch.
C23_FieldStatistics ==
    (Summarized /\ Registered(call.template_name)) =>
      /\ ret.kind = "stats"
      /\ Len(ret.field_statistics) = Len(CallFields)
      /\ \A i \in 1..Len(CallFields) :
            LET st == ret.field_statistics[i] IN
            /\ st.name = CallFields[i].name
            /\ st.total_filled + st.total_empty = ret.total_records
            /\ ret.total_records = Len(data_list)
            /\ st.total_filled = Cardinality(Holding(st.name))
            /\ st.unique_count = Cardinality(HeldTexts(st.name))
            /\ st.unique_count <= st.total_filled
            /\ st.fill_rate.den > 0
            /\ IF data_list = << >> THEN st.fill_rate.num = 0
               ELSE st.fill_rate.num * Len(data_list)
                      = st.total_filled * 100 * st.fill_rate.den

\* the case of C23: a report over a batch in which two records hold the same
\* value for one field and a record holds a falsy value for another
C23_Witness ==
    /\ Summarized
    /\ Registered(call.template_name)
    /\ ret.kind = "stats"
    /\ \E i \in 1..Len(ret.field_statistics) :
          ret.field_statistics[i].unique_count < ret.field_statistics[i].total_filled
    /\ \E i \in 1..Len(CallFields), r \in 1..Len(data_list) :
          /\ CallFields[i].name \in Keys(data_list[r])
          /\ r \notin Holding(CallFields[i].name)

\* the messages validate_data produces for the i-th record of the batch
Produced(i) ==
    validate_data(<< >>, mapping_rules, data_list[i], call.template_name).errors

\* how often the first n records of the batch produced the message
RECURSIVE TimesProduced(_, _)
TimesProduced(message, n) ==
    IF n = 0 THEN 0 ELSE Count(Produced(n), message) + TimesProduced(message, n - 1)

\* the number of messages the first n records of the batch produced
RECURSIVE Violations(_)
Violations(n) == IF n = 0 THEN 0 ELSE Len(Produced(n)) + Violations(n - 1)

\* the sum of the counts of the messages in S
RECURSIVE Total(_, _)
Total(common_errors, S) ==
    IF S = {} THEN 0
    ELSE LET message == CHOOSE m \in S : TRUE
         IN common_errors[message] + Total(common_errors, S \ {message})

\* C24 (violation tally): common_errors of the report has exactly the
\* messages that validate_data produces for some record of the batch, each
\* with the number of times it is produced over the whole batch, and its
\* counts add up to the number of violations of the batch.
C24_ViolationTally ==
    (Summarized /\ Registered(call.template_name)) =>
      /\ ret.kind = "stats"
      /\ DOMAIN ret.validation_summary.common_errors
           = UNION {Range(Produced(i)) : i \in 1..Len(data_list)}
      /\ \A message \in DOMAIN ret.validation_summary.common_errors :
            ret.validation_summary.common_errors[message]
              = TimesProduced(message, Len(data_list))
      /\ Total(ret.validation_summary.common_errors,
               DOMAIN ret.validation_summary.common_errors)
           = Violations(Len(data_list))

\* the case of C24: one message was produced by two records of the batch and
\* another message by one record only
C24_Witness ==
    /\ Summarized
    /\ Registered(call.template_name)
    /\ ret.kind = "stats"
    /\ \E m, n \in DOMAIN ret.validation_summary.common_errors :
          /\ ret.validation_summary.common_errors[m] = 2
          /\ ret.validation_summary.common_errors[n] = 1

\* C25 (templates are read-only after load): a validate_data,
\* generate_statistics_report, list_templates or create_sample_data call
\* leaves the rules of the mapper (template names, fields and field specs)
\* and the caller's record and batch as they were.
C25_ReadOnly ==
    [][call'.op \in {"validate_data", "generate_statistics_report",
                     "list_templates", "create_sample_data"}
         => /\ mapping_rules' = mapping_rules
            /\ data' = data
            /\ data_list' = data_list]_vars

\* the case of C25: after a failed validation and a report over a batch, and
\* a create_sample_data call for a template without a stored sample, the
\* rules are still those of the rules file
C25_Witness ==
    /\ call.op = "create_sample_data"
    /\ ret.kind = "dict"
    /\ ret.value # << >>
    /\ call.template_name \notin DOMAIN Samples
    /\ validation_errors # << >>
    /\ data_list # << >>
    /\ mapping_rules = json_load(config_file).value

\* the entries of the validated record under a key that the template requires
RequiredEntries ==
    {j \in 1..Len(data) :
        /\ data[j].key \in FieldNames(CallFields)
        /\ Get(FieldConfig(CallFields, data[j].key), "required", FALSE)}

\* a string that is empty or holds whitespace only
Blank(value) == value.k = "str" /\ Strip(value.s) = << >>

C27_ExactDate ==
    (Validated /\ ret.kind = "bool") =>
      \A j \in 1..Len(data) :
         (/\ data[j].key \in FieldNames(CallFields)
          /\ Get(FieldConfig(CallFields, data[j].key), "type", "text") = "date")
         => Said(data[j].key, "bad_date")
              = One(~StrictDate(PyStr(data[j].value)))

\* what validate_data leaves in the list for the record d when the list was
\* empty before the call
Fresh(d, template_name) ==
    validate_data(<< >>, mapping_rules, d, template_name).errors

PresentIn(name) ==
    {i \in 1..Len(data_list) :
        \E j \in 1..Len(data_list[i]) :
           /\ data_list[i][j].key = name
           /\ Strip(PyStr(data_list[i][j].value)) # << >>}

\* C29 (statistics agree with validation on presence): in a report, the
\* records counted as filled for a template field are exactly the records in
\* which validate_data's presence rule finds the field, so that a required
\* field is counted as empty for a record exactly when validate_data reports
\* it missing for that record.
C29_PresenceAgrees ==
    (Summarized /\ Registered(call.template_name) /\ ret.kind = "stats") =>
      \A i \in 1..Len(CallFields) :
         /\ ret.field_statistics[i].total_filled
              = Cardinality(PresentIn(CallFields[i].name))
         /\ Get(CallFields[i].cfg, "required", FALSE)
             => ret.field_statistics[i].total_empty
                  = Cardinality({r \in 1..Len(data_list) :
                        MissingMessage(CallFields[i]) \in Range(Produced(r))})

\* C30 (loading leaves an existing rules file untouched): a construction that
\* finds a file at the configured path, parseable or not, leaves that file as
\* it is; only a construction that finds no file writes one, and what it
\* writes is the built-in default rules.
C30_ExistingFileUntouched ==
    [][call'.op = "__init__" =>
         /\ config_file # NoFile => config_file' = config_file
         /\ config_file' # config_file
              => (config_file = NoFile /\ config_file' = json_dump(DefaultRules))]_vars

====
